---- MODULE Spec2Model ----
(***************************************************************************)
(* Tick-based maze chase: maze generator (src/constants.ts) and the        *)
(* session hook useGameLogic (src/unnamed/part_001, second revision,       *)
(* lines 210-1035: player 3x5, GHOST_SIZE 1.5, eat-the-ghosts ruleset).    *)
(*                                                                         *)
(* Units.  GHOST_SIZE is 1.5 cells, so every position of the model is      *)
(* kept in HALF-CELLS (a cell coordinate x is stored as 2x).  U(n) turns   *)
(* cells into half-cells.  Grid indices are cells, 0-based as in the code; *)
(* the grid is a sequence of rows, so cell (x, y) is grid[y + 1][x + 1].   *)
(***************************************************************************)
EXTENDS Integers, Sequences, FiniteSets, TLC

(* ------------------------------------------------------------------ *)
(* Program constants                                                   *)
(* ------------------------------------------------------------------ *)
EMPTY == 0
WALL == 1
PELLET == 2
GHOST_SPAWN == 9

ENTITY_SIZE == 5
\* GHOST_SIZE = 1.5 cells, written in half-cells.
GHOST_SIZE == 3

Max(a, b) == IF a >= b THEN a ELSE b
Min(a, b) == IF a <= b THEN a ELSE b
U(n) == 2 * n

\* Math.max(1, Math.floor(ENTITY_SIZE * 0.6)), in cells.
PLAYER_WIDTH == Max(1, (ENTITY_SIZE * 6) \div 10)
PLAYER_HEIGHT == ENTITY_SIZE

NumGhosts == 8
InitialActive == 2
PelletReward == 10
GhostReward == 200
InitialLives == 3

Directions == <<"UP", "DOWN", "LEFT", "RIGHT">>
DirSet == {"UP", "DOWN", "LEFT", "RIGHT"}
NoDir == "NONE"

\* MOVEMENT_VECTORS, in half-cells.
MOVEMENT_VECTORS(d) ==
    CASE d = "UP" -> [x |-> 0, y |-> -U(1)]
      [] d = "DOWN" -> [x |-> 0, y |-> U(1)]
      [] d = "LEFT" -> [x |-> -U(1), y |-> 0]
      [] d = "RIGHT" -> [x |-> U(1), y |-> 0]
      [] OTHER -> [x |-> 0, y |-> 0]

Opposite(d) ==
    CASE d = "UP" -> "DOWN"
      [] d = "DOWN" -> "UP"
      [] d = "LEFT" -> "RIGHT"
      [] d = "RIGHT" -> "LEFT"
      [] OTHER -> NoDir

(* ------------------------------------------------------------------ *)
(* Grid model                                                          *)
(* ------------------------------------------------------------------ *)
Rows(grid) == Len(grid)
Cols(grid) == Len(grid[1])

\* grid[y]?.[x] for cell coordinates: -1 stands for undefined.
CellAt(grid, x, y) ==
    IF y >= 0 /\ y < Rows(grid) /\ x >= 0 /\ x < Cols(grid)
    THEN grid[y + 1][x + 1]
    ELSE -1

\* grid[pos.y + dy]?.[pos.x + dx] for a position in half-cells: an index that
\* is not a whole number reads undefined.
CellAtHalf(grid, hx, hy) ==
    IF hx % 2 = 0 /\ hy % 2 = 0 THEN CellAt(grid, hx \div 2, hy \div 2) ELSE -1

(* ------------------------------------------------------------------ *)
(* Maze generator (src/constants.ts)                                   *)
(* ------------------------------------------------------------------ *)
\* x, y in percent; the code's floor(cols * 0.42) is (cols * 42) \div 100.
OBSTACLE_POSITIONS ==
    << [x |-> 0, y |-> 42, type |-> "horizontal"],
       [x |-> 100, y |-> 80, type |-> "horizontal"],
       [x |-> 82, y |-> 0, type |-> "vertical"],
       [x |-> 50, y |-> 50, type |-> "u-shape"] >>

textAreaStartRow(rows) == Max(2, (rows * 12) \div 100)
textAreaEndRow(rows) == Max(4, (rows * 22) \div 100)
textAreaStartCol(cols) == Max(2, (cols * 20) \div 100)
textAreaEndCol(cols) == Min(cols - 2, (cols * 80) \div 100)

InTextArea(cols, rows, x, y) ==
    /\ y >= textAreaStartRow(rows) /\ y < textAreaEndRow(rows)
    /\ x >= textAreaStartCol(cols) /\ x < textAreaEndCol(cols)

\* The fixed spawn table, in cells.
ghostSpawnTable(cols, rows) ==
    << [x |-> 2, y |-> 2],
       [x |-> cols - 3, y |-> 2],
       [x |-> 2, y |-> rows - 3],
       [x |-> cols - 3, y |-> rows - 3],
       [x |-> 2, y |-> rows \div 2],
       [x |-> cols - 3, y |-> rows \div 2],
       [x |-> cols \div 2, y |-> 5],
       [x |-> cols \div 2, y |-> rows - 6] >>

\* BaseGrid with the right border tested one column too far (x = cols).
BaseGridOpenEdge(cols, rows) ==
    [yy \in 1..rows |-> [xx \in 1..cols |->
        LET x == xx - 1
            y == yy - 1
        IN  IF y = 0 \/ y = rows - 1 \/ x = 0 \/ x = cols THEN WALL
            ELSE IF InTextArea(cols, rows, x, y) THEN EMPTY
            ELSE IF \E i \in 1..Len(ghostSpawnTable(cols, rows)) :
                        ghostSpawnTable(cols, rows)[i] = [x |-> x, y |-> y]
                 THEN GHOST_SPAWN
            ELSE PELLET]]

BaseGrid(cols, rows) ==
    [yy \in 1..rows |-> [xx \in 1..cols |->
        LET x == xx - 1
            y == yy - 1
        IN  IF y = 0 \/ y = rows - 1 \/ x = 0 \/ x = cols - 1 THEN WALL
            ELSE IF InTextArea(cols, rows, x, y) THEN EMPTY
            ELSE IF \E i \in 1..Len(ghostSpawnTable(cols, rows)) :
                        ghostSpawnTable(cols, rows)[i] = [x |-> x, y |-> y]
                 THEN GHOST_SPAWN
            ELSE PELLET]]

\* canPlaceWall with the bounds test only: text area and spawn points are
\* not protected.
canPlaceWallAnywhere(grid, x, y) ==
    ~(x < 1 \/ x > Cols(grid) - 2 \/ y < 1 \/ y > Rows(grid) - 2)

canPlaceWall(grid, x, y) ==
    LET cols == Cols(grid)
        rows == Rows(grid)
    IN  /\ ~(x < 1 \/ x > cols - 2 \/ y < 1 \/ y > rows - 2)
        /\ ~InTextArea(cols, rows, x, y)
        /\ grid[y + 1][x + 1] # GHOST_SPAWN

placeWall(grid, x, y) ==
    IF canPlaceWall(grid, x, y) THEN [grid EXCEPT ![y + 1][x + 1] = WALL] ELSE grid

SafeYOffsets == <<0, -1, 1, -2, 2>>

findSafeY(grid, xArr, yBase, height) ==
    LET clear(off) == \A tx \in xArr : \A i \in 0..(height - 1) :
                          canPlaceWall(grid, tx, yBase + off + i)
        good == {k \in 1..Len(SafeYOffsets) : clear(SafeYOffsets[k])}
    IN  IF good = {} THEN yBase
        ELSE yBase + SafeYOffsets[CHOOSE k \in good : \A j \in good : k <= j]

PlaceObstacle(grid, obstacle) ==
    LET cols == Cols(grid)
        rows == Rows(grid)
        cx0 == (cols * obstacle.x) \div 100
        cy0 == (rows * obstacle.y) \div 100
        minX == 1
        maxX == cols - 2
        minY == 1
        maxY == rows - 2
    IN  CASE obstacle.type = "horizontal" ->
               LET cx1 == IF cx0 + 1 > maxX THEN maxX - 1 ELSE cx0
                   cx == IF cx1 < minX THEN minX ELSE cx1
                   cy == findSafeY(grid, {cx, cx + 1}, cy0, 1)
               IN  placeWall(placeWall(grid, cx, cy), cx + 1, cy)
          [] obstacle.type = "vertical" ->
               LET cy1 == IF cy0 + 1 > maxY THEN maxY - 1 ELSE cy0
                   cy2 == IF cy1 < minY THEN minY ELSE cy1
                   cx1 == IF cx0 > maxX THEN maxX ELSE cx0
                   cx == IF cx1 < minX THEN minX ELSE cx1
                   cy == IF ~canPlaceWall(grid, cx, cy2) \/ ~canPlaceWall(grid, cx, cy2 + 1)
                         THEN IF canPlaceWall(grid, cx, cy2 - 1) /\ canPlaceWall(grid, cx, cy2)
                              THEN cy2 - 1
                              ELSE IF canPlaceWall(grid, cx, cy2 + 1)
                                      /\ canPlaceWall(grid, cx, cy2 + 2)
                                   THEN cy2 + 1
                                   ELSE cy2
                         ELSE cy2
               IN  placeWall(placeWall(grid, cx, cy), cx, cy + 1)
          [] OTHER ->
               LET cx1 == IF cx0 + 1 > maxX THEN maxX - 1 ELSE cx0
                   cx == IF cx1 - 1 < minX THEN minX + 1 ELSE cx1
                   cy1 == IF cy0 < minY + 1 THEN minY + 1 ELSE cy0
                   cy2 == IF cy1 > maxY THEN maxY ELSE cy1
                   cy == findSafeY(grid, {cx - 1, cx, cx + 1}, cy2, 1)
                   g1 == placeWall(grid, cx - 1, cy - 1)
                   g2 == placeWall(g1, cx + 1, cy - 1)
                   g3 == placeWall(g2, cx - 1, cy)
                   g4 == placeWall(g3, cx, cy)
               IN  placeWall(g4, cx + 1, cy)

RECURSIVE PlaceObstacles(_, _)
PlaceObstacles(grid, k) ==
    IF k > Len(OBSTACLE_POSITIONS) THEN grid
    ELSE PlaceObstacles(PlaceObstacle(grid, OBSTACLE_POSITIONS[k]), k + 1)

\* A generator that also walls in the top-left interior cell.
generateMapLayoutPocket(cols, rows) ==
    [PlaceObstacles(BaseGrid(cols, rows), 1) EXCEPT ![2][3] = WALL, ![3][2] = WALL]

generateMapLayout(cols, rows) == PlaceObstacles(BaseGrid(cols, rows), 1)

\* isMapConnected (lines 156-208): the walkable cells it counts, the cell its
\* flood fill starts from, and the neighbours it tries, in its order.
WalkableInterior(grid) ==
    {c \in (1..(Cols(grid) - 2)) \X (1..(Rows(grid) - 2)) : CellAt(grid, c[1], c[2]) # WALL}

FirstWalkable(grid) ==
    CHOOSE c \in WalkableInterior(grid) :
        \A d \in WalkableInterior(grid) : c[2] < d[2] \/ (c[2] = d[2] /\ c[1] <= d[1])

FillDirs == << <<0, -1>>, <<0, 1>>, <<-1, 0>>, <<1, 0>> >>

\* The cells one iteration of the while loop adds for the head of the queue.
FillNeighbours(grid, seen, head) ==
    SelectSeq([k \in 1..Len(FillDirs) |-> <<head[1] + FillDirs[k][1], head[2] + FillDirs[k][2]>>],
              LAMBDA n : /\ n[1] >= 1 /\ n[1] < Cols(grid) - 1
                         /\ n[2] >= 1 /\ n[2] < Rows(grid) - 1
                         /\ n \notin seen
                         /\ CellAt(grid, n[1], n[2]) # WALL)

(* ------------------------------------------------------------------ *)
(* Movement and collision engine (part_001, lines 369-431)             *)
(* ------------------------------------------------------------------ *)
Pos(x, y) == [x |-> x, y |-> y]

\* isValidMove whose scan stops after the first row of the footprint.
isValidMoveTopRow(grid, pos, width, height) ==
    /\ ~(pos.x < 0 \/ pos.y < 0)
    /\ ~(pos.y + height > U(Rows(grid)) \/ pos.x + width > U(Cols(grid)))
    /\ \A dx \in {d \in 0..width : U(d) < width} :
          CellAtHalf(grid, pos.x + U(dx), pos.y) # WALL

\* pos, width and height in half-cells.  The loops run dx, dy = 0, 1, ...
\* while dx < width: for GHOST_SIZE 1.5 that is a 2x2 block of cells.
isValidMove(grid, pos, width, height) ==
    /\ ~(pos.x < 0 \/ pos.y < 0)
    /\ ~(pos.y + height > U(Rows(grid)) \/ pos.x + width > U(Cols(grid)))
    /\ \A dy \in {d \in 0..height : U(d) < height} :
         \A dx \in {d \in 0..width : U(d) < width} :
            CellAtHalf(grid, pos.x + U(dx), pos.y + U(dy)) # WALL

\* Wrap-around of a target coordinate (lines 410-413, 806-810): v beyond one cell
\* outside [0, limit] jumps to the other side.
WrapTarget(v, limit) ==
    IF v < -U(1) THEN limit ELSE IF v > limit + U(1) THEN 0 ELSE v

\* Clamp with Math.max and Math.min exchanged.
ClampSwapped(v, limit) == Min(0, Max(v, limit))

\* Clamp for validation (lines 416-419, 812-815).
Clamp(v, limit) == Max(0, Min(v, limit))

\* Snap with the thresholds of the wrap step (one cell beyond the edge).
SnapPastEdge(v, limit) ==
    IF v < -U(1) THEN limit ELSE IF v > limit + U(1) THEN 0 ELSE v

\* Correct wrap coordinate snap (lines 394-397, 423-427, 820-823).
Snap(v, limit) == IF v < 0 THEN limit ELSE IF v > limit THEN 0 ELSE v

\* The position one step from pos in direction d, before any wrap.
Target(pos, d) == Pos(pos.x + MOVEMENT_VECTORS(d).x, pos.y + MOVEMENT_VECTORS(d).y)

\* moveEntity that forgets the queued turn once it has been taken.
moveEntityDropsTurn(entity, grid) ==
    LET limitX == U(Cols(grid)) - U(PLAYER_WIDTH)
        limitY == U(Rows(grid)) - U(PLAYER_HEIGHT)
        checkPos == Pos(Snap(Target(entity.pos, entity.nextDir).x, limitX),
                        Snap(Target(entity.pos, entity.nextDir).y, limitY))
        currentDir == IF /\ entity.nextDir # NoDir
                         /\ isValidMove(grid, checkPos, U(PLAYER_WIDTH), U(PLAYER_HEIGHT))
                      THEN entity.nextDir
                      ELSE entity.dir
        targetPos == Pos(WrapTarget(Target(entity.pos, currentDir).x, limitX),
                         WrapTarget(Target(entity.pos, currentDir).y, limitY))
    IN  IF /\ currentDir # NoDir
           /\ isValidMove(grid, Pos(Clamp(targetPos.x, limitX), Clamp(targetPos.y, limitY)),
                          U(PLAYER_WIDTH), U(PLAYER_HEIGHT))
        THEN [entity EXCEPT !.pos = Pos(Snap(targetPos.x, limitX), Snap(targetPos.y, limitY)),
                            !.dir = currentDir,
                            !.nextDir = IF currentDir = entity.nextDir THEN NoDir ELSE @]
        ELSE [entity EXCEPT !.dir = currentDir]

moveEntity(entity, grid) ==
    LET limitX == U(Cols(grid)) - U(PLAYER_WIDTH)
        limitY == U(Rows(grid)) - U(PLAYER_HEIGHT)
        checkPos == Pos(Snap(Target(entity.pos, entity.nextDir).x, limitX),
                        Snap(Target(entity.pos, entity.nextDir).y, limitY))
        currentDir == IF /\ entity.nextDir # NoDir
                         /\ isValidMove(grid, checkPos, U(PLAYER_WIDTH), U(PLAYER_HEIGHT))
                      THEN entity.nextDir
                      ELSE entity.dir
        targetPos == Pos(WrapTarget(Target(entity.pos, currentDir).x, limitX),
                         WrapTarget(Target(entity.pos, currentDir).y, limitY))
    IN  IF /\ currentDir # NoDir
           /\ isValidMove(grid, Pos(Clamp(targetPos.x, limitX), Clamp(targetPos.y, limitY)),
                          U(PLAYER_WIDTH), U(PLAYER_HEIGHT))
        THEN [entity EXCEPT !.pos = Pos(Snap(targetPos.x, limitX), Snap(targetPos.y, limitY)),
                            !.dir = currentDir]
        ELSE [entity EXCEPT !.dir = currentDir]

\* moveEntity with the footprint read from its arguments instead of
\* PLAYER_WIDTH and PLAYER_HEIGHT; width and height in half-cells.
moveEntityWith(entity, grid, width, height) ==
    LET limitX == U(Cols(grid)) - width
        limitY == U(Rows(grid)) - height
        checkPos == Pos(Snap(Target(entity.pos, entity.nextDir).x, limitX),
                        Snap(Target(entity.pos, entity.nextDir).y, limitY))
        currentDir == IF /\ entity.nextDir # NoDir
                         /\ isValidMove(grid, checkPos, width, height)
                      THEN entity.nextDir
                      ELSE entity.dir
        targetPos == Pos(WrapTarget(Target(entity.pos, currentDir).x, limitX),
                         WrapTarget(Target(entity.pos, currentDir).y, limitY))
    IN  IF /\ currentDir # NoDir
           /\ isValidMove(grid, Pos(Clamp(targetPos.x, limitX), Clamp(targetPos.y, limitY)),
                          width, height)
        THEN [entity EXCEPT !.pos = Pos(Snap(targetPos.x, limitX), Snap(targetPos.y, limitY)),
                            !.dir = currentDir]
        ELSE [entity EXCEPT !.dir = currentDir]

(* ------------------------------------------------------------------ *)
(* Session construction (part_001, lines 218-343)                      *)
(* ------------------------------------------------------------------ *)
\* The GHOST_SPAWN cells of a grid in row-major scan order, in cells.
ScanSpawns(grid) ==
    LET cols == Cols(grid)
        keys == {k \in 0..(Rows(grid) * cols - 1) :
                    grid[(k \div cols) + 1][(k % cols) + 1] = GHOST_SPAWN}
    IN  [i \in 1..Cardinality(keys) |->
            LET k == CHOOSE k \in keys : Cardinality({j \in keys : j < k}) = i - 1
            IN  Pos(k % cols, k \div cols)]

\* findValidPosition; start and result in cells, width and height in cells.
findValidPosition(grid, startX, startY, width, height) ==
    LET cols == Cols(grid)
        rows == Rows(grid)
        isValid(x, y) ==
            /\ ~(x < 0 \/ y < 0 \/ x + width > cols \/ y + height > rows)
            /\ \A dy \in 0..(height - 1) : \A dx \in 0..(width - 1) :
                   grid[y + dy + 1][x + dx + 1] # WALL
        positions(o) ==
            << Pos(startX, startY), Pos(startX + o, startY), Pos(startX - o, startY),
               Pos(startX, startY + o), Pos(startX, startY - o),
               Pos(startX + o, startY + o), Pos(startX - o, startY - o),
               Pos(startX + o, startY - o), Pos(startX - o, startY + o) >>
        hit(o) == {i \in 1..9 : isValid(positions(o)[i].x, positions(o)[i].y)}
        offs == {o \in 0..(Max(cols, rows) - 1) : hit(o) # {}}
        \* bottom-centre scan: y from rows-5 down to rows-10, x from cols/2-2 up
        scan == {k \in 0..29 :
                    isValid((cols \div 2) - 2 + (k % 5), rows - 5 - (k \div 5))}
    IN  IF offs # {}
        THEN LET o == CHOOSE o \in offs : \A p \in offs : o <= p
                 i == CHOOSE i \in hit(o) : \A j \in hit(o) : i <= j
             IN  positions(o)[i]
        ELSE IF scan # {}
        THEN LET k == CHOOSE k \in scan : \A j \in scan : k <= j
             IN  Pos((cols \div 2) - 2 + (k % 5), rows - 5 - (k \div 5))
        ELSE Pos(Max(1, (cols \div 2) - 2), Max(1, rows - 5))

HalfPos(p) == Pos(U(p.x), U(p.y))

\* The session state built by getInitialGameState on a grid of the given size.
InitialPlayer(grid) ==
    [pos |-> HalfPos(findValidPosition(grid, Cols(grid) \div 2, (Rows(grid) * 85) \div 100,
                                       PLAYER_WIDTH, PLAYER_HEIGHT)),
     dir |-> NoDir, nextDir |-> NoDir]

\* The pool with one agent more active at the start (i <= INITIAL_ACTIVE).
InitialGhostsOneMore(grid) ==
    LET spawns == ScanSpawns(grid)
    IN  [i \in 1..NumGhosts |->
            [id |-> i,
             pos |-> HalfPos(spawns[((i - 1) % Len(spawns)) + 1]),
             dir |-> "UP", nextDir |-> NoDir,
             isActive |-> (i - 1 <= InitialActive), isEaten |-> FALSE]]

InitialGhosts(grid) ==
    LET spawns == ScanSpawns(grid)
        spawnPos == IF Len(spawns) > 0
                    THEN spawns[(Len(spawns) \div 2) + 1]
                    ELSE Pos(Cols(grid) \div 2, (Rows(grid) * 30) \div 100)
    IN  [i \in 1..NumGhosts |->
            [id |-> i,
             pos |-> HalfPos(IF Len(spawns) > 0
                             THEN spawns[((i - 1) % Len(spawns)) + 1]
                             ELSE spawnPos),
             dir |-> "UP", nextDir |-> NoDir,
             isActive |-> (i - 1 < InitialActive), isEaten |-> FALSE]]

(* ------------------------------------------------------------------ *)
(* Agent AI (part_001, lines 433-831)                                  *)
(* ------------------------------------------------------------------ *)
getGhostBehavior(ghostId) ==
    CASE ghostId = 1 -> "wanderer"
      [] ghostId = 2 -> "horizontal"
      [] ghostId = 3 -> "vertical"
      [] ghostId = 4 -> "erratic"
      [] ghostId = 5 -> "corner"
      [] ghostId = 6 -> "slow"
      [] ghostId = 7 -> "zigzag"
      [] ghostId = 8 -> "distance"
      [] OTHER -> "wanderer"

\* Key of the shared pacing counter in ghostMoveCounters ('global_tick'); the
\* other keys are ghost ids.
GlobalTick == 0

\* The outcomes of the Math.random() calls of one moveGhost call:
\*   rev   Math.random() < 0.3            (erratic: spontaneous reversal)
\*   coin  Math.random() < 0.6 or < 0.8   (wanderer, horizontal, vertical)
\*   thr   Math.floor(Math.random() * 3)  (erratic: forced-turn threshold)
\*   pick  Math.floor(Math.random() * n)  (index into a list of n moves);
\*         for the corner policy, which of several moves of equal real-valued
\*         score the floating-point comparison prefers
Draw(rev, coin, thr, pick) == [rev |-> rev, coin |-> coin, thr |-> thr, pick |-> pick]
NoDraw == Draw(FALSE, FALSE, 0, 0)

\* The draws a policy can consume; the calls it does not make are left at
\* their NoDraw value.
DrawsFor(behavior) ==
    CASE behavior = "wanderer" ->
            {Draw(FALSE, TRUE, 0, 0)} \cup {Draw(FALSE, FALSE, 0, p) : p \in 0..3}
      [] behavior \in {"horizontal", "vertical"} ->
            {Draw(FALSE, c, 0, 0) : c \in BOOLEAN}
      [] behavior = "erratic" ->
            {Draw(r, FALSE, t, p) : r \in BOOLEAN, t \in 0..2, p \in 0..3}
      [] behavior \in {"zigzag", "corner"} ->
            {Draw(FALSE, FALSE, 0, p) : p \in 0..3}
      [] OTHER -> {NoDraw}

SqDist(ax, ay, bx, by) == (ax - bx) * (ax - bx) + (ay - by) * (ay - by)
\* Math.abs left out: the signed difference.
AbsSigned(n) == n
Abs(n) == IF n < 0 THEN -n ELSE n

\* The result of "let best = default; let max = init; moves.forEach(d =>
\* if (score[d] > max) { max = score[d]; best = d })": the first move whose
\* score is the largest, if that score exceeds init.  score maps each
\* direction to its score.
FirstMax(moves, score, init, default) ==
    LET idx == {i \in 1..Len(moves) :
                  /\ score[moves[i]] > init
                  /\ \A j \in 1..Len(moves) :
                        IF j < i THEN score[moves[j]] < score[moves[i]]
                        ELSE score[moves[j]] <= score[moves[i]]}
    IN  IF idx = {} THEN default ELSE moves[CHOOSE i \in idx : TRUE]

Includes(moves, d) == \E i \in 1..Len(moves) : moves[i] = d

\* list[Math.floor(Math.random() * list.length)]: a draw outside the list is
\* not an outcome of the call (ok = FALSE).
Picked(moves, pick) ==
    IF pick < Len(moves) THEN [dir |-> moves[pick + 1], ok |-> TRUE]
    ELSE [dir |-> NoDir, ok |-> FALSE]
Chosen(d) == [dir |-> d, ok |-> TRUE]

\* The candidate filter whose dead-end pass admits every direction untested.
ValidMovesUntested(ghost, grid, canReverse) ==
    LET limit == U(Cols(grid)) - GHOST_SIZE
        wrapped(d) == Pos(Snap(Target(ghost.pos, d).x, limit), Target(ghost.pos, d).y)
        firstPass == SelectSeq(Directions, LAMBDA d :
                        /\ canReverse \/ d # Opposite(ghost.dir)
                        /\ isValidMove(grid, wrapped(d), GHOST_SIZE, GHOST_SIZE))
    IN  IF Len(firstPass) = 0 THEN Directions ELSE firstPass

\* The candidate filter without the no-reverse rule.
ValidMovesReversing(ghost, grid, canReverse) ==
    LET limit == U(Cols(grid)) - GHOST_SIZE
        wrapped(d) == Pos(Snap(Target(ghost.pos, d).x, limit), Target(ghost.pos, d).y)
        firstPass == SelectSeq(Directions, LAMBDA d :
                        isValidMove(grid, wrapped(d), GHOST_SIZE, GHOST_SIZE))
        deadEnd == SelectSeq(Directions, LAMBDA d :
                        isValidMove(grid, Target(ghost.pos, d), GHOST_SIZE, GHOST_SIZE))
    IN  IF Len(firstPass) = 0 THEN deadEnd ELSE firstPass

\* The candidate filter (lines 483-518): the directions that do not reverse
\* and whose x-wrapped target is free; in a dead end, any free direction.
ValidMoves(ghost, grid, canReverse) ==
    LET limit == U(Cols(grid)) - GHOST_SIZE
        wrapped(d) == Pos(Snap(Target(ghost.pos, d).x, limit), Target(ghost.pos, d).y)
        firstPass == SelectSeq(Directions, LAMBDA d :
                        /\ canReverse \/ d # Opposite(ghost.dir)
                        /\ isValidMove(grid, wrapped(d), GHOST_SIZE, GHOST_SIZE))
        deadEnd == SelectSeq(Directions, LAMBDA d :
                        isValidMove(grid, Target(ghost.pos, d), GHOST_SIZE, GHOST_SIZE))
    IN  IF Len(firstPass) = 0 THEN deadEnd ELSE firstPass

\* The direction policies (lines 520-795).  ownCounter is the ghost's own
\* entry of ghostMoveCounters as the zigzag policy reads it.
ChooseDirection(ghost, grid, playerPos, refs, draw, validMoves, ownCounter) ==
    LET behavior == getGhostBehavior(ghost.id)
        cols == U(Cols(grid))
        rows == U(Rows(grid))
        dist(d) == SqDist(Target(ghost.pos, d).x, Target(ghost.pos, d).y,
                          playerPos.x, playerPos.y)
        distX(d) == (Target(ghost.pos, d).x - playerPos.x) * (Target(ghost.pos, d).x - playerPos.x)
        distY(d) == (Target(ghost.pos, d).y - playerPos.y) * (Target(ghost.pos, d).y - playerPos.y)
        byDist == [d \in DirSet |-> dist(d)]
        byDistX == [d \in DirSet |-> distX(d)]
        byDistY == [d \in DirSet |-> distY(d)]
        horizontalMoves == SelectSeq(validMoves, LAMBDA d : d \in {"LEFT", "RIGHT"})
        verticalMoves == SelectSeq(validMoves, LAMBDA d : d \in {"UP", "DOWN"})
        \* erratic
        forceTurn == refs.gameTick - refs.ghostLastTurnTick[ghost.id] > 2 + draw.thr
        otherDirs == SelectSeq(validMoves, LAMBDA d : d # ghost.dir)
        \* corner: totalScore = (100 - minEdgeDist) + playerDist * 0.1 in cells,
        \* compared here as 40 * totalScore in half-cells.
        minEdgeDist(d) == Min(Min(Target(ghost.pos, d).x, cols - Target(ghost.pos, d).x),
                              Min(Target(ghost.pos, d).y, rows - Target(ghost.pos, d).y))
        totalScore(d) == 4000 - 20 * minEdgeDist(d) + dist(d)
        byTotalScore == [d \in DirSet |-> totalScore(d)]
        \* The code adds IEEE doubles: when two moves with different edge terms
        \* have the same real-valued score, the rounding of playerDist * 0.1
        \* decides which one compares greater, so either may be taken.
        best == SelectSeq(validMoves, LAMBDA d :
                    \A j \in 1..Len(validMoves) : totalScore(validMoves[j]) <= totalScore(d))
        \* distance: idealDistance 64 and the threshold 36 are squared cells,
        \* 256 and 144 squared half-cells.
        currentDist == SqDist(ghost.pos.x, ghost.pos.y, playerPos.x, playerPos.y)
        keepScore(d) == Abs(dist(d) - 256)
        candidates == SelectSeq(validMoves, LAMBDA d :
                         ~(currentDist < 144 /\ dist(d) < currentDist))
        nearest == IF Len(candidates) = 0 THEN validMoves[1]
                   ELSE candidates[CHOOSE i \in 1..Len(candidates) :
                           \A j \in 1..Len(candidates) :
                              IF j < i THEN keepScore(candidates[j]) > keepScore(candidates[i])
                              ELSE keepScore(candidates[j]) >= keepScore(candidates[i])]
    IN  CASE behavior = "wanderer" ->
                IF draw.coin THEN Chosen(FirstMax(validMoves, byDist, -1, ghost.dir))
                ELSE Picked(validMoves, draw.pick)
          [] behavior = "horizontal" ->
                IF Len(horizontalMoves) > 0 /\ draw.coin
                THEN Chosen(FirstMax(horizontalMoves, byDistX, -1, horizontalMoves[1]))
                ELSE Chosen(FirstMax(validMoves, byDist, -1, ghost.dir))
          [] behavior = "vertical" ->
                IF Len(verticalMoves) > 0 /\ draw.coin
                THEN Chosen(FirstMax(verticalMoves, byDistY, -1, verticalMoves[1]))
                ELSE Chosen(FirstMax(validMoves, byDist, -1, ghost.dir))
          [] behavior = "erratic" ->
                IF forceTurn
                THEN IF Len(otherDirs) > 0 THEN Picked(otherDirs, draw.pick)
                     ELSE Picked(validMoves, draw.pick)
                ELSE IF Includes(validMoves, ghost.dir) THEN Chosen(ghost.dir)
                     ELSE Picked(validMoves, draw.pick)
          [] behavior = "corner" ->
                IF \A i \in 1..Len(best) : minEdgeDist(best[i]) = minEdgeDist(best[1])
                THEN Chosen(FirstMax(validMoves, byTotalScore, -40, validMoves[1]))
                ELSE Picked(best, draw.pick)
          [] behavior = "slow" -> Chosen(FirstMax(validMoves, byDist, -1, ghost.dir))
          [] behavior = "zigzag" ->
                IF ownCounter % 4 < 2
                THEN IF Len(verticalMoves) > 0
                     THEN Chosen(FirstMax(verticalMoves, byDistY, -1, verticalMoves[1]))
                     ELSE Picked(validMoves, draw.pick)
                ELSE IF Len(horizontalMoves) > 0
                     THEN Chosen(FirstMax(horizontalMoves, byDistX, -1, horizontalMoves[1]))
                     ELSE Picked(validMoves, draw.pick)
          [] OTHER ->
                IF currentDist < 144 THEN Chosen(FirstMax(validMoves, byDist, -1, nearest))
                ELSE Chosen(nearest)

\* Fallback if no direction chosen (lines 797-800).
Fallback(choice, validMoves, draw) ==
    IF choice.ok /\ ~Includes(validMoves, choice.dir)
    THEN Picked(validMoves, draw.pick)
    ELSE choice

\* Calculate the new position, wrap, validate, snap (lines 802-825).
\* The movement step that commits the clamped position.
CommitMoveUnwrapped(ghost, grid, chosenDir) ==
    LET limitX == U(Cols(grid)) - GHOST_SIZE
        limitY == U(Rows(grid)) - GHOST_SIZE
        nextPos == Pos(WrapTarget(Target(ghost.pos, chosenDir).x, limitX),
                       WrapTarget(Target(ghost.pos, chosenDir).y, limitY))
    IN  IF isValidMove(grid, Pos(Clamp(nextPos.x, limitX), Clamp(nextPos.y, limitY)),
                       GHOST_SIZE, GHOST_SIZE)
        THEN [ghost EXCEPT !.pos = Pos(Clamp(nextPos.x, limitX), Clamp(nextPos.y, limitY)),
                           !.dir = chosenDir]
        ELSE [ghost EXCEPT !.dir = chosenDir]

\* The movement step of moveGhost (lines 802-831).
CommitMove(ghost, grid, chosenDir) ==
    LET limitX == U(Cols(grid)) - GHOST_SIZE
        limitY == U(Rows(grid)) - GHOST_SIZE
        nextPos == Pos(WrapTarget(Target(ghost.pos, chosenDir).x, limitX),
                       WrapTarget(Target(ghost.pos, chosenDir).y, limitY))
    IN  IF isValidMove(grid, Pos(Clamp(nextPos.x, limitX), Clamp(nextPos.y, limitY)),
                       GHOST_SIZE, GHOST_SIZE)
        THEN [ghost EXCEPT !.pos = Pos(Snap(nextPos.x, limitX), Snap(nextPos.y, limitY)),
                           !.dir = chosenDir]
        ELSE [ghost EXCEPT !.dir = chosenDir]

\* The ghostMoveCounters after the pacing code (lines 467-481): the shared
\* counter always advances, the slow ghost's own counter on its moving ticks.
\* The pacing code with the slow agent's counter advanced before the test of
\* the shared counter.
PacedAlways(ghost, counters) ==
    LET counters1 == [counters EXCEPT ![GlobalTick] = @ + 1]
    IN  IF getGhostBehavior(ghost.id) = "slow"
        THEN [counters1 EXCEPT ![ghost.id] = @ + 1]
        ELSE counters1

Paced(ghost, counters) ==
    LET counters1 == [counters EXCEPT ![GlobalTick] = @ + 1]
    IN  IF counters[GlobalTick] % 5 # 0 /\ getGhostBehavior(ghost.id) = "slow"
        THEN [counters1 EXCEPT ![ghost.id] = @ + 1]
        ELSE counters1

\* refs = [ghostMoveCounters, ghostLastTurnTick, gameTick], the useRef cells
\* moveGhost reads and writes.  Result: [ghost, refs, ok].
moveGhost(ghost, grid, player, refs, draw) ==
    LET behavior == getGhostBehavior(ghost.id)
        ownCounter == refs.ghostMoveCounters[ghost.id]
        validMoves == ValidMoves(ghost, grid, behavior = "erratic" /\ draw.rev)
        final == Fallback(ChooseDirection(ghost, grid, player.pos, refs, draw,
                                          validMoves, ownCounter),
                          validMoves, draw)
        turned == /\ behavior = "erratic"
                  /\ refs.gameTick - refs.ghostLastTurnTick[ghost.id] > 2 + draw.thr
                  /\ \E i \in 1..Len(validMoves) : validMoves[i] # ghost.dir
    IN  IF \/ refs.ghostMoveCounters[GlobalTick] % 5 = 0
           \/ behavior = "slow" /\ ownCounter % 2 = 0
           \/ Len(validMoves) = 0
        THEN [ghost |-> ghost, ok |-> TRUE,
              refs |-> [refs EXCEPT !.ghostMoveCounters = Paced(ghost, @)]]
        ELSE IF ~final.ok
        THEN [ghost |-> ghost, ok |-> FALSE, refs |-> refs]
        ELSE [ghost |-> CommitMove(ghost, grid, final.dir),
              ok |-> TRUE,
              refs |-> [ghostMoveCounters |->
                            IF behavior = "zigzag"
                            THEN [Paced(ghost, refs.ghostMoveCounters) EXCEPT ![ghost.id] = @ + 1]
                            ELSE Paced(ghost, refs.ghostMoveCounters),
                        ghostLastTurnTick |->
                            IF turned
                            THEN [refs.ghostLastTurnTick EXCEPT ![ghost.id] = refs.gameTick]
                            ELSE refs.ghostLastTurnTick,
                        gameTick |-> refs.gameTick + 1]]

(* ------------------------------------------------------------------ *)
(* One simulation step (part_001, lines 848-1019)                      *)
(* ------------------------------------------------------------------ *)
\* Cell (x, y) is one of the cells pos + (dx, dy), dx < PLAYER_WIDTH and
\* dy < PLAYER_HEIGHT, that the loop of lines 857-868 visits.
UnderPlayer(pos, x, y) ==
    /\ pos.x <= U(x) /\ U(x) < pos.x + U(PLAYER_WIDTH) /\ (U(x) - pos.x) % 2 = 0
    /\ pos.y <= U(y) /\ U(y) < pos.y + U(PLAYER_HEIGHT) /\ (U(y) - pos.y) % 2 = 0

\* Pellet consumption without the test for PELLET: every cell under the
\* player that is not a wall is emptied.
EatAnything(grid, pos) ==
    [r \in 1..Rows(grid) |->
        [c \in 1..Cols(grid) |->
            IF grid[r][c] # WALL /\ UnderPlayer(pos, c - 1, r - 1)
            THEN EMPTY
            ELSE grid[r][c]]]

\* Pellet consumption whose outer loop stops after dy = 0.
EatPelletsTopRow(grid, pos) ==
    [r \in 1..Rows(grid) |->
        IF pos.y = U(r - 1)
        THEN [c \in 1..Cols(grid) |->
                IF grid[r][c] = PELLET /\ UnderPlayer(pos, c - 1, r - 1)
                THEN EMPTY
                ELSE grid[r][c]]
        ELSE grid[r]]

\* Pellet consumption: the grid after the loop of lines 857-868.
EatPellets(grid, pos) ==
    [r \in 1..Rows(grid) |->
        IF pos.y <= U(r - 1) /\ U(r - 1) < pos.y + U(PLAYER_HEIGHT)
        THEN [c \in 1..Cols(grid) |->
                IF grid[r][c] = PELLET /\ UnderPlayer(pos, c - 1, r - 1)
                THEN EMPTY
                ELSE grid[r][c]]
        ELSE grid[r]]

\* The count over the square ENTITY_SIZE x ENTITY_SIZE footprint of the
\* earlier revision instead of PLAYER_WIDTH x PLAYER_HEIGHT.
PelletsEatenSquare(grid, pos) ==
    Cardinality({d \in (0..(ENTITY_SIZE - 1)) \X (0..(ENTITY_SIZE - 1)) :
        CellAtHalf(grid, pos.x + U(d[1]), pos.y + U(d[2])) = PELLET})

\* The number of newScore += 10 the loop executes.
PelletsEaten(grid, pos) ==
    Cardinality({d \in (0..(PLAYER_WIDTH - 1)) \X (0..(PLAYER_HEIGHT - 1)) :
        CellAtHalf(grid, pos.x + U(d[1]), pos.y + U(d[2])) = PELLET})

\* The map without the isActive test: an inactive agent is moved as well.
RECURSIVE MoveGhostsAll(_, _, _, _, _)
MoveGhostsAll(i, ghosts, grid, newPlayer, refs) ==
    IF i > Len(ghosts) THEN {[ghosts |-> ghosts, refs |-> refs]}
    ELSE LET results == {moveGhost(ghosts[i], grid, newPlayer, refs, d) :
                            d \in IF ghosts[i].isActive
                                  THEN DrawsFor(getGhostBehavior(ghosts[i].id))
                                  ELSE {NoDraw}}
         IN  UNION {MoveGhostsAll(i + 1, [ghosts EXCEPT ![i] = r.ghost], grid, newPlayer, r.refs) :
                        r \in {q \in results : q.ok}}

\* prev.ghosts.map(g => g.isActive ? moveGhost(g, prev.grid, newPlayer) : g):
\* the calls run in pool order and share the refs, so each call sees the
\* counters left by the calls before it.  The set of all results, one for
\* each combination of random draws.
RECURSIVE MoveGhosts(_, _, _, _, _)
MoveGhosts(i, ghosts, grid, newPlayer, refs) ==
    IF i > Len(ghosts) THEN {[ghosts |-> ghosts, refs |-> refs]}
    ELSE IF ~ghosts[i].isActive THEN MoveGhosts(i + 1, ghosts, grid, newPlayer, refs)
    ELSE LET results == {moveGhost(ghosts[i], grid, newPlayer, refs, d) :
                            d \in DrawsFor(getGhostBehavior(ghosts[i].id))}
         IN  UNION {MoveGhosts(i + 1, [ghosts EXCEPT ![i] = r.ghost], grid, newPlayer, r.refs) :
                        r \in {q \in results : q.ok}}

\* The same map for one given sequence of draws, one per active ghost.
RECURSIVE MoveGhostsWith(_, _, _, _, _, _)
MoveGhostsWith(i, ghosts, grid, newPlayer, refs, draws) ==
    IF i > Len(ghosts) THEN [ghosts |-> ghosts, refs |-> refs]
    ELSE IF ~ghosts[i].isActive \/ Len(draws) = 0
    THEN MoveGhostsWith(i + 1, ghosts, grid, newPlayer, refs, draws)
    ELSE LET r == moveGhost(ghosts[i], grid, newPlayer, refs, Head(draws))
         IN  MoveGhostsWith(i + 1, [ghosts EXCEPT ![i] = r.ghost], grid, newPlayer,
                            r.refs, Tail(draws))

\* AABB collision check using player width and height (lines 894-898).
collision(playerPos, ghostPos) ==
    /\ playerPos.x < ghostPos.x + GHOST_SIZE
    /\ playerPos.x + U(PLAYER_WIDTH) > ghostPos.x
    /\ playerPos.y < ghostPos.y + GHOST_SIZE
    /\ playerPos.y + U(PLAYER_HEIGHT) > ghostPos.y

\* Collision processing without the isActive test: pending agents collide.
ProcessCollisionsAll(ghosts, playerPos) ==
    [i \in 1..Len(ghosts) |->
        IF ghosts[i].isEaten THEN ghosts[i]
        ELSE IF collision(playerPos, ghosts[i].pos)
        THEN [ghosts[i] EXCEPT !.isActive = FALSE, !.isEaten = TRUE]
        ELSE ghosts[i]]

\* Process collisions (lines 890-920).
ProcessCollisions(ghosts, playerPos) ==
    [i \in 1..Len(ghosts) |->
        IF ~ghosts[i].isActive \/ ghosts[i].isEaten THEN ghosts[i]
        ELSE IF collision(playerPos, ghosts[i].pos)
        THEN [ghosts[i] EXCEPT !.isActive = FALSE, !.isEaten = TRUE]
        ELSE ghosts[i]]

EatenNow(before, after) ==
    {i \in 1..Len(before) : after[i].isEaten /\ ~before[i].isEaten}

\* The spawn point nearest to the player (the comparison reversed).
nearestSpawn(grid, playerPos) ==
    LET ghostSpawns == ScanSpawns(grid)
        dist(i) == SqDist(U(ghostSpawns[i].x), U(ghostSpawns[i].y), playerPos.x, playerPos.y)
        best == CHOOSE i \in 1..Len(ghostSpawns) :
                    \A j \in 1..Len(ghostSpawns) :
                        IF j < i THEN dist(j) > dist(i) ELSE dist(j) >= dist(i)
    IN  IF Len(ghostSpawns) > 0
        THEN HalfPos(ghostSpawns[best])
        ELSE HalfPos(Pos(Cols(grid) \div 2, (Rows(grid) * 3) \div 10))

\* Spawn point furthest from the player (lines 931-955), in half-cells.
furthestSpawn(grid, playerPos) ==
    LET ghostSpawns == ScanSpawns(grid)
        dist(i) == SqDist(U(ghostSpawns[i].x), U(ghostSpawns[i].y), playerPos.x, playerPos.y)
        best == CHOOSE i \in 1..Len(ghostSpawns) :
                    \A j \in 1..Len(ghostSpawns) :
                        IF j < i THEN dist(j) < dist(i) ELSE dist(j) <= dist(i)
    IN  IF Len(ghostSpawns) > 0
        THEN HalfPos(ghostSpawns[best])
        ELSE HalfPos(Pos(Cols(grid) \div 2, (Rows(grid) * 3) \div 10))

\* Activation that takes the first agent that is not active, eaten or not.
ActivateInactive(ghosts, grid, playerPos, ghostWasEaten) ==
    LET inactive == {i \in 1..Len(ghosts) : ~ghosts[i].isActive}
        first == CHOOSE i \in inactive : \A j \in inactive : i <= j
    IN  IF ghostWasEaten /\ inactive # {}
        THEN [ghosts EXCEPT ![first] =
                [@ EXCEPT !.isActive = TRUE, !.pos = furthestSpawn(grid, playerPos),
                          !.dir = "UP", !.nextDir = NoDir]]
        ELSE ghosts

\* The activation without the test of ghostWasEaten: a pending agent is
\* activated on every tick.
ActivatePendingEveryTick(ghosts, grid, playerPos, ghostWasEaten) ==
    LET pending == {i \in 1..Len(ghosts) : ~ghosts[i].isActive /\ ~ghosts[i].isEaten}
        pendingGhostIndex == CHOOSE i \in pending : \A j \in pending : i <= j
    IN  IF pending # {}
        THEN [ghosts EXCEPT ![pendingGhostIndex] =
                [@ EXCEPT !.isActive = TRUE, !.pos = furthestSpawn(grid, playerPos),
                          !.dir = "UP", !.nextDir = NoDir]]
        ELSE ghosts

\* If a ghost was eaten, try to activate a pending one (lines 923-965).
ActivatePending(ghosts, grid, playerPos, ghostWasEaten) ==
    LET pending == {i \in 1..Len(ghosts) : ~ghosts[i].isActive /\ ~ghosts[i].isEaten}
        pendingGhostIndex == CHOOSE i \in pending : \A j \in pending : i <= j
    IN  IF ghostWasEaten /\ pending # {}
        THEN [ghosts EXCEPT ![pendingGhostIndex] =
                [@ EXCEPT !.isActive = TRUE, !.pos = furthestSpawn(grid, playerPos),
                          !.dir = "UP", !.nextDir = NoDir]]
        ELSE ghosts

(* ------------------------------------------------------------------ *)
(* The session state machine (part_001, lines 345-367 and 833-1032)    *)
(* ------------------------------------------------------------------ *)
\* Grid sizes generateResponsiveMapLayout hands to generateMapLayout: at
\* least MinCols x MinRows, and an odd number of rows (constants.ts:150).
MinCols == 12
MinRows == 15
MaxCols == 13
MaxRows == 17
GridSizes ==
    {<<c, r>> : c \in MinCols..MaxCols, r \in {q \in MinRows..MaxRows : q % 2 = 1}}

\* Number of steps a run may take off the reference play-through.
MaxDetour == 1

VARIABLES
    grid, player, ghosts, score, status, lives, activeMessage,  \* gameState
    ghostMoveCounters, ghostLastTurnTick, gameTick,             \* useRef cells
    winSequenceTriggered,                                       \* useRef cell
    winTimers,      \* pending setTimeout callbacks of the win sequence
    rendered,       \* gameState.status of the last committed render
    replay, detour, \* position in the reference play-through, steps off it
    visited, queue, \* the flood fill of isMapConnected (constants.ts)
    sizing,         \* the locals of generateResponsiveMapLayout (constants.ts)
    lastTime, accumulatedTime \* the locals of the game-loop effect (836-837)

state == <<grid, player, ghosts, score, status, lives, activeMessage>>
refCells == <<ghostMoveCounters, ghostLastTurnTick, gameTick>>
vars == <<grid, player, ghosts, score, status, lives, activeMessage,
          ghostMoveCounters, ghostLastTurnTick, gameTick,
          winSequenceTriggered, winTimers, rendered, replay, detour,
          visited, queue, sizing, lastTime, accumulatedTime>>
fill == <<visited, queue>>
loopLocals == <<lastTime, accumulatedTime>>
locals == <<sizing, loopLocals>>

\* sizing before generateResponsiveMapLayout has been entered.
NoSizing ==
    [availableWidth |-> 0, availableHeight |-> 0, blockSize |-> 0,
     bestCols |-> 0, bestRows |-> 0, bestUtilization |-> 0, returned |-> TRUE,
     hinted |-> TRUE, isNaN |-> FALSE, threw |-> FALSE]

\* activeMessage: 0 is null, i is the "Gone." message of GHOST_TYPES[i].
NoMessage == 0

\* getInitialGameState() for the grid generateResponsiveMapLayout returned.
InitialOn(g) ==
    [grid |-> g, player |-> InitialPlayer(g), ghosts |-> InitialGhosts(g),
     score |-> 0, status |-> "IDLE", lives |-> InitialLives,
     activeMessage |-> NoMessage]

\* getInitialGameState() on a viewport that yields a grid of the given size.
getInitialGameState(size) == InitialOn(generateMapLayout(size[1], size[2]))

\* The events of a run: user input, animation frames, timers and renders.
Ev(op, dir, draws, expired, size) ==
    [op |-> op, dir |-> dir, draws |-> draws, expired |-> expired, size |-> size]
EvDir(d) == Ev("setDirection", d, <<>>, FALSE, <<0, 0>>)
EvTick(draws, expired) == Ev("tick", NoDir, draws, expired, <<0, 0>>)
EvTimeout == Ev("timeout", NoDir, <<>>, FALSE, <<0, 0>>)
EvRender == Ev("render", NoDir, <<>>, FALSE, <<0, 0>>)
EvRestart(size) == Ev("restartGame", NoDir, <<>>, FALSE, size)

\* A reference play-through on the smallest grid in which the player eats
\* all eight ghosts: the inputs, and the random draws of each tick.
WinningPlay ==
    LET dnc00 == Draw(FALSE, TRUE, 0, 0)
        dnn00 == Draw(FALSE, FALSE, 0, 0)
        dnn01 == Draw(FALSE, FALSE, 0, 1)
        T(draws) == EvTick(draws, TRUE)
    IN  <<EvDir("DOWN"), EvRender, T(<<dnc00, dnc00>>), T(<<dnc00, dnc00>>),
        T(<<dnn00, dnc00>>), T(<<dnn00, dnc00>>), T(<<dnn00, dnc00>>),
        T(<<dnc00, dnc00>>), T(<<dnn00, dnc00>>), EvDir("UP"),
        T(<<dnn00, dnc00>>), T(<<dnc00, dnc00>>), T(<<dnc00, dnc00>>),
        T(<<dnc00, dnc00>>), T(<<dnc00, dnc00>>), T(<<dnc00, dnc00>>),
        T(<<dnc00, dnc00>>), T(<<dnc00, dnc00>>), T(<<dnc00, dnn00>>),
        T(<<dnc00, dnn00>>), T(<<dnc00, dnn00>>), T(<<dnc00, dnn01>>),
        T(<<dnc00, dnn00>>), T(<<dnc00, dnn01>>), T(<<dnc00, dnn00>>),
        T(<<dnc00, dnn00>>), T(<<dnc00, dnn01>>), T(<<dnc00, dnn00>>),
        T(<<dnc00, dnn00>>), T(<<dnc00, dnn01>>), EvDir("LEFT"),
        T(<<dnc00, dnn00>>), T(<<dnc00, dnn00>>), T(<<dnn00, dnn00>>),
        T(<<dnc00, dnn00>>), T(<<dnc00, dnn00>>), T(<<dnc00, dnn00>>),
        T(<<dnc00, dnn00>>), T(<<dnc00, dnn00>>), T(<<dnc00, dnn00>>),
        T(<<dnc00, dnn00>>), T(<<dnc00, dnn00>>), T(<<dnc00, dnn00>>),
        T(<<dnc00, dnn00>>), T(<<dnc00, dnn00>>), T(<<dnc00, dnn00>>),
        T(<<dnn00, dnn00>>), EvDir("RIGHT"), T(<<dnn00, dnn00>>),
        T(<<dnn00, dnn00>>), T(<<dnc00, dnn00>>), T(<<dnn00, dnn00>>),
        T(<<dnc00, dnn00>>), EvDir("DOWN"), T(<<dnn00, dnn00>>),
        EvDir("LEFT"), T(<<dnn00, dnn00>>), T(<<dnn00, dnn00>>),
        T(<<dnn00, dnn00>>), T(<<dnn00, dnn00>>), T(<<dnn00, dnn00>>),
        T(<<dnn00, dnn00>>), T(<<dnn00, dnn00>>), T(<<dnn00, dnn00>>),
        T(<<dnn00, dnn00>>), T(<<dnn00, dnn00>>), T(<<dnn00, dnn00>>),
        T(<<dnn00, dnn00>>), T(<<dnn00, dnn00>>), T(<<dnn00, dnn00>>),
        T(<<dnn00, dnn00>>), T(<<dnn00, dnn00>>), T(<<dnn00, dnn00>>),
        T(<<dnn00, dnn00>>), T(<<dnn00, dnn00>>), EvDir("RIGHT"),
        T(<<dnn00, dnn00>>), T(<<dnn00, dnn00>>), T(<<dnn00, dnn00>>),
        T(<<dnn00, dnn00>>), T(<<dnn00, dnn00>>), T(<<dnn00, dnn00>>),
        T(<<dnn00, dnn00>>), T(<<dnn00, dnn00>>), T(<<dnn00, dnn01>>),
        T(<<dnn00, dnn00>>), T(<<dnn00, dnn00>>), T(<<dnn00, dnn00>>),
        T(<<dnn00, dnn00>>), EvDir("UP"), T(<<dnn00, dnn01>>),
        T(<<dnn00, dnn00>>), T(<<dnn00, dnn00>>), EvDir("DOWN"),
        T(<<dnn00, dnn00>>), EvDir("LEFT"), T(<<dnn00, dnn00>>),
        T(<<dnn00, dnn00>>), T(<<dnn00, dnn00>>), T(<<dnn00, dnn00>>),
        EvDir("UP"), T(<<dnn00, dnn00>>), EvDir("DOWN"), T(<<dnn00, dnn00>>),
        T(<<dnn00, dnn00>>), T(<<dnn00, dnn00>>), T(<<dnn00, dnn00>>),
        T(<<dnn00, dnn00>>), T(<<dnn00, dnn00>>), T(<<dnn00, dnn00>>),
        T(<<dnn00, dnn00>>), EvDir("RIGHT"), T(<<dnn00, dnn00>>),
        T(<<dnn00, dnn00>>), T(<<dnn00, dnn00>>), T(<<dnn00, dnn00>>),
        T(<<dnn00>>), T(<<dnn00>>), T(<<dnn00>>), T(<<dnn00>>),
        EvDir("LEFT"), T(<<dnn00>>), T(<<dnn00>>), T(<<dnn00>>),
        T(<<dnn00>>), T(<<dnn00>>), T(<<dnn00>>), T(<<dnn00>>), T(<<dnn00>>),
        T(<<dnn00>>), T(<<dnn00>>), T(<<dnn00>>), T(<<dnn00>>), T(<<dnn00>>),
        T(<<dnn00>>), T(<<dnn00>>), T(<<dnn00>>), T(<<dnn00>>), T(<<dnn00>>),
        T(<<dnn00>>), T(<<dnn00>>), T(<<dnn00>>), T(<<dnn00>>), T(<<dnn00>>),
        T(<<dnn00>>), T(<<dnn00>>), T(<<dnn00>>), T(<<dnn00>>), T(<<dnn00>>),
        T(<<dnn00>>), T(<<dnn00>>), T(<<dnn00>>), T(<<dnn00>>), T(<<dnn00>>),
        T(<<dnn00>>), T(<<dnn00>>), T(<<dnn00>>), T(<<dnn00>>),
        EvDir("RIGHT"), T(<<dnn00>>), T(<<dnn00>>), T(<<dnn00>>),
        T(<<dnn00>>), T(<<dnn00>>) >>

\* The first moves of a play-through on a larger grid.
ShortPlay ==
    LET dnc00 == Draw(FALSE, TRUE, 0, 0)
        dnn00 == Draw(FALSE, FALSE, 0, 0)
        dnn01 == Draw(FALSE, FALSE, 0, 1)
        T(draws) == EvTick(draws, TRUE)
    IN  <<EvDir("LEFT"), EvRender, T(<<dnc00, dnc00>>), T(<<dnc00, dnc00>>),
        T(<<dnc00, dnc00>>), T(<<dnc00, dnc00>>), EvDir("UP"),
        T(<<dnn00, dnc00>>), T(<<dnc00, dnc00>>), T(<<dnc00, dnc00>>),
        T(<<dnc00, dnc00>>), EvDir("RIGHT"), T(<<dnc00, dnc00>>),
        T(<<dnn01, dnc00>>), T(<<dnn01, dnc00>>), T(<<dnn01, dnc00>>) >>

\* The play-throughs a run may follow, each with the size of its grid: after
\* the last ghost is eaten the win timer fires and the player restarts, or
\* the player restarts before the timer fires; on the larger grid the player
\* restarts during play and a frame of the running loop follows before the
\* render.
Run(size, events) == [size |-> size, events |-> events]
Runs ==
    << Run(<<MinCols, MinRows>>,
           WinningPlay \o << EvTimeout, EvRender, EvDir("LEFT"),
                             EvRestart(<<MinCols, MinRows>>), EvRender,
                             EvDir("UP"), EvRender,
                             EvTick(<<Draw(FALSE, TRUE, 0, 0), Draw(FALSE, TRUE, 0, 0)>>, TRUE) >>),
       Run(<<MinCols, MinRows>>,
           WinningPlay \o << EvRestart(<<MinCols, MinRows>>), EvTimeout, EvRender,
                             EvDir("LEFT") >>),
       Run(<<MaxCols, MaxRows>>,
           ShortPlay \o << EvRestart(<<MaxCols, MaxRows>>),
                           EvTick(<<Draw(FALSE, TRUE, 0, 0), Draw(FALSE, TRUE, 0, 0)>>, TRUE) >>) >>

\* A run either follows one of the reference play-throughs or has left it;
\* a step off the play-through abandons it for good and counts as a detour.
Off == [run |-> 0, at |-> 0]
NextEv == Runs[replay.run].events[replay.at + 1]
Sched(matches) ==
    IF replay # Off /\ matches
    THEN /\ replay' = IF replay.at + 1 = Len(Runs[replay.run].events) THEN Off
                      ELSE [replay EXCEPT !.at = @ + 1]
         /\ detour' = detour
    ELSE /\ detour < MaxDetour
         /\ detour' = detour + 1
         /\ replay' = Off

Init ==
    \E size \in GridSizes : \E run \in 0..Len(Runs) :
      \E initial \in {getInitialGameState(size)} :
        /\ run # 0 => size = Runs[run].size
        /\ grid = initial.grid
        /\ player = initial.player
        /\ ghosts = initial.ghosts
        /\ score = initial.score
        /\ status = initial.status
        /\ lives = initial.lives
        /\ activeMessage = initial.activeMessage
        /\ ghostMoveCounters = [k \in 0..NumGhosts |-> 0]
        /\ ghostLastTurnTick = [k \in 1..NumGhosts |-> 0]
        /\ gameTick = 0
        /\ winSequenceTriggered = FALSE
        /\ winTimers = 0
        /\ rendered = "IDLE"
        /\ replay = IF run = 0 THEN Off ELSE [run |-> run, at |-> 0]
        /\ detour = 0
        /\ visited = {}
        /\ queue = << >>
        /\ sizing = NoSizing
        /\ lastTime = 0
        /\ accumulatedTime = 0

\* setDirection (lines 350-362): the guard reads the status captured by the
\* render that created the callback, the updater the state it is applied to.
SetDirection(dir) ==
    /\ Sched(NextEv.op = "setDirection" /\ NextEv.dir = dir)
    /\ IF rendered # "PLAYING" /\ rendered # "IDLE"
       THEN UNCHANGED <<player, status>>
       ELSE IF rendered = "IDLE"
       THEN /\ status' = "PLAYING"
            /\ player' = [player EXCEPT !.nextDir = dir]
       ELSE /\ player' = [player EXCEPT !.nextDir = dir]
            /\ UNCHANGED status
    /\ UNCHANGED <<grid, ghosts, score, lives, activeMessage, refCells,
                   winSequenceTriggered, winTimers, rendered, fill, locals>>

\* restartGame without winSequenceTriggered.current = false.
RestartGameKeepLatch(size) ==
    /\ Sched(NextEv.op = "restartGame" /\ NextEv.size = size)
    /\ \E initial \in {getInitialGameState(size)} :
           /\ grid' = initial.grid
           /\ player' = initial.player
           /\ ghosts' = initial.ghosts
           /\ score' = initial.score
           /\ status' = initial.status
           /\ lives' = initial.lives
           /\ activeMessage' = initial.activeMessage
    /\ UNCHANGED <<refCells, winSequenceTriggered, winTimers, rendered, fill, locals>>

\* restartGame (lines 364-367).
RestartGame(size) ==
    /\ Sched(NextEv.op = "restartGame" /\ NextEv.size = size)
    /\ winSequenceTriggered' = FALSE
    /\ \E initial \in {getInitialGameState(size)} :
           /\ grid' = initial.grid
           /\ player' = initial.player
           /\ ghosts' = initial.ghosts
           /\ score' = initial.score
           /\ status' = initial.status
           /\ lives' = initial.lives
           /\ activeMessage' = initial.activeMessage
    /\ UNCHANGED <<refCells, winTimers, rendered, fill, locals>>

\* The state a tick computes from the moved ghosts and the message expiry.
TickResult(moved, expired) ==
    LET newPlayer == moveEntity(player, grid)
        updatedGhosts == ProcessCollisions(moved.ghosts, newPlayer.pos)
        eaten == EatenNow(moved.ghosts, updatedGhosts)
        activated == ActivatePending(updatedGhosts, grid, newPlayer.pos, eaten # {})
        newMessage == IF eaten # {} THEN ghosts[CHOOSE i \in eaten : \A j \in eaten : j <= i].id
                      ELSE activeMessage
    IN  [player |-> newPlayer,
         ghosts |-> activated,
         grid |-> EatPellets(grid, newPlayer.pos),
         score |-> score + PelletReward * PelletsEaten(grid, newPlayer.pos)
                         + GhostReward * Cardinality(eaten),
         activeMessage |-> IF eaten = {} /\ expired THEN NoMessage ELSE newMessage,
         refs |-> moved.refs,
         allGhostsEaten |-> \A i \in 1..Len(activated) : activated[i].isEaten]

\* The tick of the earlier ruleset: a collision of the player with an agent
\* ends the session (newStatus = GameStatus.GAME_OVER).
TickGameOver ==
    /\ rendered = "PLAYING"
    /\ IF replay = Off THEN detour < MaxDetour ELSE TRUE
    /\ IF status # "PLAYING"
       THEN /\ Sched(NextEv.op = "tick")
            /\ UNCHANGED <<state, refCells, winSequenceTriggered, winTimers>>
       ELSE LET newPlayer == moveEntity(player, grid)
                refs == [ghostMoveCounters |-> ghostMoveCounters,
                         ghostLastTurnTick |-> ghostLastTurnTick,
                         gameTick |-> gameTick]
            IN  \E moved \in MoveGhosts(1, ghosts, grid, newPlayer, refs) :
                \E expired \in BOOLEAN :
                    LET new == TickResult(moved, expired)
                    IN  /\ Sched(/\ NextEv.op = "tick"
                                 /\ NextEv.expired = expired
                                 /\ moved = MoveGhostsWith(1, ghosts, grid, newPlayer,
                                                           refs, NextEv.draws))
                        /\ player' = new.player
                        /\ ghosts' = new.ghosts
                        /\ grid' = new.grid
                        /\ score' = new.score
                        /\ activeMessage' = new.activeMessage
                        /\ ghostMoveCounters' = new.refs.ghostMoveCounters
                        /\ ghostLastTurnTick' = new.refs.ghostLastTurnTick
                        /\ gameTick' = new.refs.gameTick
                        /\ IF new.allGhostsEaten /\ ~winSequenceTriggered
                           THEN /\ winSequenceTriggered' = TRUE
                                /\ winTimers' = winTimers + 1
                           ELSE UNCHANGED <<winSequenceTriggered, winTimers>>
                        /\ status' = IF \E i \in 1..Len(ghosts) :
                                          new.ghosts[i].isEaten /\ ~ghosts[i].isEaten
                                     THEN "GAME_OVER"
                                     ELSE status
                        /\ UNCHANGED lives
    /\ UNCHANGED <<rendered, fill, locals>>

\* The tick without the status guard of line 849: the updater resolves a
\* tick whatever the status.
TickUnguarded ==
    /\ rendered = "PLAYING"
    /\ IF replay = Off THEN detour < MaxDetour ELSE TRUE
    /\ IF FALSE
       THEN /\ Sched(NextEv.op = "tick")
            /\ UNCHANGED <<state, refCells, winSequenceTriggered, winTimers>>
       ELSE LET newPlayer == moveEntity(player, grid)
                refs == [ghostMoveCounters |-> ghostMoveCounters,
                         ghostLastTurnTick |-> ghostLastTurnTick,
                         gameTick |-> gameTick]
            IN  \E moved \in MoveGhosts(1, ghosts, grid, newPlayer, refs) :
                \E expired \in BOOLEAN :
                    LET new == TickResult(moved, expired)
                    IN  /\ Sched(/\ NextEv.op = "tick"
                                 /\ NextEv.expired = expired
                                 /\ moved = MoveGhostsWith(1, ghosts, grid, newPlayer,
                                                           refs, NextEv.draws))
                        /\ player' = new.player
                        /\ ghosts' = new.ghosts
                        /\ grid' = new.grid
                        /\ score' = new.score
                        /\ activeMessage' = new.activeMessage
                        /\ ghostMoveCounters' = new.refs.ghostMoveCounters
                        /\ ghostLastTurnTick' = new.refs.ghostLastTurnTick
                        /\ gameTick' = new.refs.gameTick
                        /\ IF new.allGhostsEaten /\ ~winSequenceTriggered
                           THEN /\ winSequenceTriggered' = TRUE
                                /\ winTimers' = winTimers + 1
                           ELSE UNCHANGED <<winSequenceTriggered, winTimers>>
                        /\ UNCHANGED <<status, lives>>
    /\ UNCHANGED <<rendered, fill, locals>>

\* One frame of the game loop whose accumulated time reached GAME_SPEED_MS
\* (lines 839-1023); the loop runs while the last render saw PLAYING.
Tick ==
    /\ rendered = "PLAYING"
    /\ IF replay = Off THEN detour < MaxDetour ELSE TRUE
    /\ IF status # "PLAYING"
       THEN /\ Sched(NextEv.op = "tick")
            /\ UNCHANGED <<state, refCells, winSequenceTriggered, winTimers>>
       ELSE LET newPlayer == moveEntity(player, grid)
                refs == [ghostMoveCounters |-> ghostMoveCounters,
                         ghostLastTurnTick |-> ghostLastTurnTick,
                         gameTick |-> gameTick]
            IN  \E moved \in MoveGhosts(1, ghosts, grid, newPlayer, refs) :
                \E expired \in BOOLEAN :
                    LET new == TickResult(moved, expired)
                    IN  /\ Sched(/\ NextEv.op = "tick"
                                 /\ NextEv.expired = expired
                                 /\ moved = MoveGhostsWith(1, ghosts, grid, newPlayer,
                                                           refs, NextEv.draws))
                        /\ player' = new.player
                        /\ ghosts' = new.ghosts
                        /\ grid' = new.grid
                        /\ score' = new.score
                        /\ activeMessage' = new.activeMessage
                        /\ ghostMoveCounters' = new.refs.ghostMoveCounters
                        /\ ghostLastTurnTick' = new.refs.ghostLastTurnTick
                        /\ gameTick' = new.refs.gameTick
                        /\ IF new.allGhostsEaten /\ ~winSequenceTriggered
                           THEN /\ winSequenceTriggered' = TRUE
                                /\ winTimers' = winTimers + 1
                           ELSE UNCHANGED <<winSequenceTriggered, winTimers>>
                        /\ UNCHANGED <<status, lives>>
    /\ UNCHANGED <<rendered, fill, locals>>

\* The callback of setTimeout(..., 1000) (lines 973-975).
WinTimeout ==
    /\ winTimers > 0
    /\ Sched(NextEv.op = "timeout")
    /\ winTimers' = winTimers - 1
    /\ status' = "WON"
    /\ UNCHANGED <<grid, player, ghosts, score, lives, activeMessage, refCells,
                   winSequenceTriggered, rendered, fill, locals>>

\* React commits a render of the changed status: setDirection is recreated
\* with it (deps [gameState.status]) and the game loop effect is re-run.
Render ==
    /\ rendered # status
    /\ Sched(NextEv.op = "render")
    /\ rendered' = status
    /\ UNCHANGED <<state, refCells, winSequenceTriggered, winTimers, fill, locals>>

Next ==
    \/ \E dir \in DirSet : SetDirection(dir)
    \/ \E size \in GridSizes : RestartGame(size)
    \/ Tick
    \/ WinTimeout
    \/ Render

Spec == Init /\ [][Next]_vars

(* ------------------------------------------------------------------ *)
(* moveEntity on open test grids                                       *)
(* ------------------------------------------------------------------ *)
\* Generated grids carry a border ring, so no run of Spec brings the player
\* to a grid edge.  MoveSpec applies moveEntity on small grids without a
\* border: all cells EMPTY except at most one WALL cell.
MoveMaxCols == 5
MoveMaxRows == 6

OpenGrid(cols, rows, wall) ==
    [y \in 1..rows |-> [x \in 1..cols |-> IF <<x, y>> = wall THEN WALL ELSE EMPTY]]

MoveGrids ==
    UNION {{OpenGrid(cols, rows, wall) :
                wall \in {<<0, 0>>} \cup ((1..cols) \X (1..rows))} :
           cols \in (PLAYER_WIDTH + 1)..MoveMaxCols,
           rows \in PLAYER_HEIGHT..MoveMaxRows}

\* A player as getInitialGameState leaves it (dir null) on a legal position.
MoveInit ==
    \E g \in MoveGrids :
      \E x \in 0..(Cols(g) - PLAYER_WIDTH), y \in 0..(Rows(g) - PLAYER_HEIGHT) :
        /\ isValidMove(g, HalfPos(Pos(x, y)), U(PLAYER_WIDTH), U(PLAYER_HEIGHT))
        /\ grid = g
        /\ player = [pos |-> HalfPos(Pos(x, y)), dir |-> NoDir, nextDir |-> NoDir]
        /\ ghosts = << >>
        /\ score = 0
        /\ status = "PLAYING"
        /\ lives = InitialLives
        /\ activeMessage = NoMessage
        /\ ghostMoveCounters = [k \in 0..NumGhosts |-> 0]
        /\ ghostLastTurnTick = [k \in 1..NumGhosts |-> 0]
        /\ gameTick = 0
        /\ winSequenceTriggered = FALSE
        /\ winTimers = 0
        /\ rendered = "PLAYING"
        /\ replay = Off
        /\ detour = 0
        /\ visited = {}
        /\ queue = << >>
        /\ sizing = NoSizing
        /\ lastTime = 0
        /\ accumulatedTime = 0

\* The updater of setDirection while PLAYING (lines 357-361).
Queue(dir) ==
    /\ player' = [player EXCEPT !.nextDir = dir]
    /\ UNCHANGED <<grid, ghosts, score, status, lives, activeMessage, refCells,
                   winSequenceTriggered, winTimers, rendered, replay, detour, fill, locals>>

\* newPlayer = moveEntity(prev.player, prev.grid) (line 853).
Advance ==
    /\ player' = moveEntity(player, grid)
    /\ UNCHANGED <<grid, ghosts, score, status, lives, activeMessage, refCells,
                   winSequenceTriggered, winTimers, rendered, replay, detour, fill, locals>>

MoveNext ==
    \/ \E dir \in DirSet : Queue(dir)
    \/ Advance

MoveSpec == MoveInit /\ [][MoveNext]_vars

(* ------------------------------------------------------------------ *)
(* moveGhost on small walled grids                                     *)
(* ------------------------------------------------------------------ *)
\* On the generated grids of Spec an agent always has a free neighbouring
\* position.  AgentSpec applies the agent step of a tick (line 872) to one
\* active agent of each behaviour on small square grids with a border ring
\* and at most one WALL cell inside, among them the grid whose interior is
\* exactly one agent footprint.
\* The cells per side isValidMove inspects for GHOST_SIZE (dx = 0, 1).
GhostCells == (GHOST_SIZE + 1) \div 2

\* The smallest ring grid has room for exactly one agent footprint.
AgentMinSize == ((GHOST_SIZE + 1) \div 2) + 2
AgentMaxSize == 5
AgentMaxTicks == 3

RingGrid(n, wall) ==
    [y \in 1..n |-> [x \in 1..n |->
        IF x = 1 \/ x = n \/ y = 1 \/ y = n \/ <<x, y>> = wall THEN WALL ELSE EMPTY]]

AgentGrids ==
    UNION {{RingGrid(n, wall) : wall \in {<<0, 0>>} \cup ((2..(n - 1)) \X (2..(n - 1)))} :
           n \in AgentMinSize..AgentMaxSize}

\* One active agent on a legal position, facing any direction; the player
\* is only a reference point of the distance scores.
AgentInit ==
    \E g \in AgentGrids :
      \E x \in 1..(Cols(g) - 2), y \in 1..(Rows(g) - 2), id \in 1..NumGhosts, dir \in DirSet :
        /\ isValidMove(g, HalfPos(Pos(x, y)), GHOST_SIZE, GHOST_SIZE)
        /\ grid = g
        /\ player = [pos |-> HalfPos(Pos(1, 1)), dir |-> NoDir, nextDir |-> NoDir]
        /\ ghosts = << [id |-> id, pos |-> HalfPos(Pos(x, y)), dir |-> dir, nextDir |-> NoDir,
                        isActive |-> TRUE, isEaten |-> FALSE] >>
        /\ score = 0
        /\ status = "PLAYING"
        /\ lives = InitialLives
        /\ activeMessage = NoMessage
        /\ ghostMoveCounters = [k \in 0..NumGhosts |-> 0]
        /\ ghostLastTurnTick = [k \in 1..NumGhosts |-> 0]
        /\ gameTick = 0
        /\ winSequenceTriggered = FALSE
        /\ winTimers = 0
        /\ rendered = "PLAYING"
        /\ replay = Off
        /\ detour = 0
        /\ visited = {}
        /\ queue = << >>
        /\ sizing = NoSizing
        /\ lastTime = 0
        /\ accumulatedTime = 0

\* newGhosts = prev.ghosts.map(g => g.isActive ? moveGhost(...) : g) (line 872).
AgentMove ==
    /\ ghostMoveCounters[GlobalTick] < AgentMaxTicks
    /\ \E moved \in MoveGhosts(1, ghosts, grid, player,
                                [ghostMoveCounters |-> ghostMoveCounters,
                                 ghostLastTurnTick |-> ghostLastTurnTick,
                                 gameTick |-> gameTick]) :
          /\ ghosts' = moved.ghosts
          /\ ghostMoveCounters' = moved.refs.ghostMoveCounters
          /\ ghostLastTurnTick' = moved.refs.ghostLastTurnTick
          /\ gameTick' = moved.refs.gameTick
    /\ UNCHANGED <<grid, player, score, status, lives, activeMessage,
                   winSequenceTriggered, winTimers, rendered, replay, detour, fill, locals>>

AgentNext == AgentMove

AgentSpec == AgentInit /\ [][AgentNext]_vars

(* ------------------------------------------------------------------ *)
(* moveGhost on open test grids                                        *)
(* ------------------------------------------------------------------ *)
\* StepSpec applies the agent step to one active agent of each behaviour on
\* small grids without a border, where a step can leave the grid on either
\* axis: all cells EMPTY except at most one WALL cell.
StepMaxCols == 4
StepMaxRows == 3
StepMaxTicks == 4

StepGrids ==
    UNION {{OpenGrid(cols, rows, wall) :
                wall \in {<<0, 0>>} \cup ((1..cols) \X (1..rows))} :
           cols \in (GhostCells + 1)..StepMaxCols,
           rows \in (GhostCells + 1)..StepMaxRows}

StepInit ==
    \E g \in StepGrids :
      \E x \in 0..(Cols(g) - GhostCells), y \in 0..(Rows(g) - GhostCells),
         id \in 1..NumGhosts, dir \in DirSet :
        /\ isValidMove(g, HalfPos(Pos(x, y)), GHOST_SIZE, GHOST_SIZE)
        /\ grid = g
        /\ player = [pos |-> HalfPos(Pos(0, 0)), dir |-> NoDir, nextDir |-> NoDir]
        /\ ghosts = << [id |-> id, pos |-> HalfPos(Pos(x, y)), dir |-> dir, nextDir |-> NoDir,
                        isActive |-> TRUE, isEaten |-> FALSE] >>
        /\ score = 0
        /\ status = "PLAYING"
        /\ lives = InitialLives
        /\ activeMessage = NoMessage
        /\ ghostMoveCounters = [k \in 0..NumGhosts |-> 0]
        /\ ghostLastTurnTick = [k \in 1..NumGhosts |-> 0]
        /\ gameTick = 0
        /\ winSequenceTriggered = FALSE
        /\ winTimers = 0
        /\ rendered = "PLAYING"
        /\ replay = Off
        /\ detour = 0
        /\ visited = {}
        /\ queue = << >>
        /\ sizing = NoSizing
        /\ lastTime = 0
        /\ accumulatedTime = 0

\* newGhosts = prev.ghosts.map(g => g.isActive ? moveGhost(...) : g) (line 872).
StepMove ==
    /\ ghostMoveCounters[GlobalTick] < StepMaxTicks
    /\ \E moved \in MoveGhosts(1, ghosts, grid, player,
                                [ghostMoveCounters |-> ghostMoveCounters,
                                 ghostLastTurnTick |-> ghostLastTurnTick,
                                 gameTick |-> gameTick]) :
          /\ ghosts' = moved.ghosts
          /\ ghostMoveCounters' = moved.refs.ghostMoveCounters
          /\ ghostLastTurnTick' = moved.refs.ghostLastTurnTick
          /\ gameTick' = moved.refs.gameTick
    /\ UNCHANGED <<grid, player, score, status, lives, activeMessage,
                   winSequenceTriggered, winTimers, rendered, replay, detour, fill, locals>>

StepNext == StepMove

StepSpec == StepInit /\ [][StepNext]_vars

(* ------------------------------------------------------------------ *)
(* isMapConnected on generated grids                                   *)
(* ------------------------------------------------------------------ *)
\* GenSpec runs the flood fill of isMapConnected, one iteration of its while
\* loop per step, on the grid generateMapLayout builds for each size from
\* MinCols x MinRows to GenMaxCols x GenMaxRows.
GenMaxCols == 14
GenMaxRows == 17

GenInit ==
    \E cols \in MinCols..GenMaxCols, rows \in MinRows..GenMaxRows :
      \E initial \in {getInitialGameState(<<cols, rows>>)} :
        /\ grid = initial.grid
        /\ player = initial.player
        /\ ghosts = initial.ghosts
        /\ score = initial.score
        /\ status = initial.status
        /\ lives = initial.lives
        /\ activeMessage = initial.activeMessage
        /\ ghostMoveCounters = [k \in 0..NumGhosts |-> 0]
        /\ ghostLastTurnTick = [k \in 1..NumGhosts |-> 0]
        /\ gameTick = 0
        /\ winSequenceTriggered = FALSE
        /\ winTimers = 0
        /\ rendered = "IDLE"
        /\ replay = Off
        /\ detour = 0
        /\ sizing = NoSizing
        /\ lastTime = 0
        /\ accumulatedTime = 0
        /\ IF WalkableInterior(initial.grid) = {}
           THEN visited = {} /\ queue = << >>
           ELSE /\ visited = {FirstWalkable(initial.grid)}
                /\ queue = <<FirstWalkable(initial.grid)>>

\* One iteration of "while (queue.length > 0)" (lines 179-195).
FillStep ==
    /\ queue # << >>
    /\ LET new == FillNeighbours(grid, visited, Head(queue))
       IN  /\ visited' = visited \cup {new[k] : k \in 1..Len(new)}
           /\ queue' = Tail(queue) \o new
    /\ UNCHANGED <<grid, player, ghosts, score, status, lives, activeMessage, refCells,
                   winSequenceTriggered, winTimers, rendered, replay, detour,
                   locals>>

GenNext == FillStep

GenSpec == GenInit /\ [][GenNext]_vars

(* ------------------------------------------------------------------ *)
(* generateResponsiveMapLayout (constants.ts 39-153)                   *)
(* ------------------------------------------------------------------ *)
\* SizeSpec runs generateResponsiveMapLayout(availableWidth, availableHeight)
\* for hints in whole pixels: one step per iteration of the block-size
\* loop, then one step for the corrections and the call of
\* generateMapLayout.  sizing.blockSize counts half pixels (the loop adds
\* 0.5), so the source's blockSize is sizing.blockSize / 2.
minBlockSize == 14
maxBlockSize == 50
idealBlockSize == 22
MaxFitCols == 45
MaxFitRows == 55
FallbackMinCols == 15
FallbackMaxCols == 35
FallbackMinRows == 20
FallbackMaxRows == 45

\* The no-hint branch (lines 41-58) reads window.innerWidth and
\* window.innerHeight.  Viewports are the sizes the environment reports;
\* NoViewport is an environment whose window has neither property, so that
\* both reads give undefined and every number computed from them is NaN
\* (sizing.isNaN).
headerHeight == 85
controlsHeight == 140
padding == 8
maxGameWidth == 800
Viewports == {<<375, 667>>, <<1280, 720>>}
NoViewport == <<0, 0>>

\* The default map of constants.ts (lines 433-464).
INITIAL_MAP_LAYOUT ==
    <<<<1, 1, 1, 1, 1, 1, 1, 1, 1, 1, 1, 1, 1, 1, 1, 1, 1, 1, 1, 1>>,
      <<1, 2, 2, 2, 2, 2, 2, 2, 2, 2, 2, 2, 2, 2, 2, 2, 2, 2, 2, 1>>,
      <<1, 2, 2, 2, 2, 2, 2, 2, 2, 2, 2, 2, 2, 2, 2, 2, 2, 2, 2, 1>>,
      <<1, 2, 2, 2, 2, 2, 2, 2, 2, 2, 2, 2, 2, 2, 2, 2, 2, 2, 2, 1>>,
      <<1, 2, 2, 2, 2, 2, 2, 2, 2, 2, 2, 2, 2, 2, 2, 2, 2, 2, 2, 1>>,
      <<1, 2, 2, 2, 0, 0, 0, 0, 0, 0, 0, 0, 0, 0, 0, 0, 0, 2, 2, 1>>,
      <<1, 2, 2, 2, 0, 0, 0, 0, 0, 0, 0, 0, 0, 0, 0, 0, 0, 2, 2, 1>>,
      <<1, 2, 2, 2, 0, 0, 0, 0, 0, 0, 0, 0, 0, 0, 0, 0, 0, 2, 2, 1>>,
      <<1, 2, 2, 2, 2, 2, 2, 2, 2, 2, 2, 2, 2, 2, 2, 2, 2, 2, 2, 1>>,
      <<1, 2, 2, 2, 2, 2, 1, 1, 1, 2, 2, 1, 1, 1, 2, 2, 2, 2, 2, 1>>,
      <<1, 2, 2, 2, 2, 2, 1, 9, 9, 9, 9, 9, 9, 1, 2, 2, 2, 2, 2, 1>>,
      <<1, 2, 2, 2, 2, 2, 1, 9, 9, 9, 9, 9, 9, 1, 2, 2, 2, 2, 2, 1>>,
      <<1, 2, 2, 2, 2, 2, 1, 1, 1, 1, 1, 1, 1, 1, 2, 2, 2, 2, 2, 1>>,
      <<1, 2, 2, 2, 2, 2, 2, 2, 2, 2, 2, 2, 2, 2, 2, 2, 2, 2, 2, 1>>,
      <<1, 2, 2, 2, 2, 2, 2, 2, 2, 2, 2, 2, 2, 2, 2, 2, 2, 2, 2, 1>>,
      <<1, 2, 2, 2, 2, 2, 2, 2, 2, 2, 2, 2, 2, 2, 2, 2, 2, 2, 2, 1>>,
      <<1, 2, 2, 2, 2, 2, 2, 2, 2, 2, 2, 2, 2, 2, 2, 2, 2, 2, 2, 1>>,
      <<1, 2, 2, 2, 2, 2, 2, 2, 2, 2, 2, 2, 2, 2, 2, 2, 2, 2, 2, 1>>,
      <<1, 2, 2, 2, 2, 2, 2, 2, 2, 2, 2, 2, 2, 2, 2, 2, 2, 2, 2, 1>>,
      <<1, 2, 2, 2, 2, 2, 2, 2, 2, 2, 2, 2, 2, 2, 2, 2, 2, 2, 2, 1>>,
      <<1, 2, 2, 2, 2, 2, 2, 2, 2, 2, 2, 2, 2, 2, 2, 2, 2, 2, 2, 1>>,
      <<1, 2, 2, 2, 2, 2, 2, 2, 2, 2, 2, 2, 2, 2, 2, 2, 2, 2, 2, 1>>,
      <<1, 2, 2, 2, 2, 2, 2, 2, 2, 2, 2, 2, 2, 2, 2, 2, 2, 2, 2, 1>>,
      <<1, 1, 1, 2, 2, 2, 2, 2, 1, 1, 2, 2, 2, 2, 2, 2, 2, 1, 1, 1>>,
      <<1, 2, 2, 2, 2, 2, 2, 2, 2, 2, 2, 2, 2, 2, 2, 2, 2, 2, 2, 1>>,
      <<1, 2, 2, 2, 2, 2, 2, 2, 2, 2, 2, 2, 2, 2, 2, 2, 2, 2, 2, 1>>,
      <<1, 2, 2, 2, 2, 2, 2, 2, 2, 2, 2, 2, 2, 2, 2, 2, 2, 2, 2, 1>>,
      <<1, 2, 2, 2, 2, 2, 2, 2, 2, 2, 2, 2, 2, 2, 2, 2, 2, 2, 2, 1>>,
      <<1, 1, 1, 1, 1, 1, 1, 1, 1, 1, 1, 1, 1, 1, 1, 1, 1, 1, 1, 1>>>>

\* The hints tried: widths and heights for which no block size fits, for
\* which the smallest grid fits, and for which many sizes fit.
HintWidths == {100, 200, 240, 792}
HintHeights == {60, 224, 240, 300, 3000}

\* totalScore (lines 86-107) is a sum of floating-point quotients.  It is
\* computed here in units of 1/ScoreUnit with integer division; the value
\* differs from the exact one by less than ScoreSlack units.
ScoreUnit == 10000
ScoreSlack == 3

fitCols(availableWidth, blockSize) == (2 * availableWidth) \div blockSize
fitRows(availableHeight, blockSize) == (2 * availableHeight) \div blockSize

\* "if (cols < 12 || rows < 15) continue; if (cols > 45 || rows > 55) continue"
Fits(cols, rows) ==
    ~(cols < MinCols \/ rows < MinRows) /\ ~(cols > MaxFitCols \/ rows > MaxFitRows)

totalScore(w, h, blockSize, cols, rows) ==
    LET utilization == (cols * blockSize * ScoreUnit) \div (4 * w)
                       + (rows * blockSize * ScoreUnit) \div (4 * h)
        wide95 == 100 * cols * blockSize > 190 * w
        wide90 == 100 * cols * blockSize > 180 * w
        high90 == 100 * rows * blockSize > 180 * h
        bonus == IF wide95 /\ high90 THEN (2 * ScoreUnit) \div 10
                 ELSE IF wide90 /\ high90 THEN ScoreUnit \div 10 ELSE 0
        sizeBias == (blockSize * 8 * ScoreUnit) \div (200 * maxBlockSize)
        arDiff == Abs(cols * h - rows * w)
        arScore == IF 5 * arDiff >= rows * h THEN 0
                   ELSE (2 * ScoreUnit) \div 10 - (arDiff * ScoreUnit) \div (rows * h)
    IN  utilization + bonus + sizeBias + arScore

\* "if (bestRows % 2 === 0) bestRows--" with the test left out.
oddRowsAlways(bestRows) == bestRows - 1

\* "if (bestRows % 2 === 0) bestRows--" (line 150).
oddRows(bestRows) == IF bestRows % 2 = 0 THEN bestRows - 1 ELSE bestRows

\* Lines 118-127: the sizes used when the loop kept no candidate.
fallbackSize(w, h, bestCols, bestRows) ==
    IF bestCols = 0 \/ bestRows = 0
    THEN [cols |-> Max(FallbackMinCols, Min(FallbackMaxCols, w \div idealBlockSize)),
          rows |-> Max(FallbackMinRows, Min(FallbackMaxRows, h \div idealBlockSize))]
    ELSE [cols |-> bestCols, rows |-> bestRows]

\* Lines 132-144: mapAR < screenAR * 0.99, targetCols = ceil(bestRows * screenAR).
Narrow(w, h, bestCols, bestRows) == 100 * bestCols * h < 99 * w * bestRows

widen(w, h, bestCols, bestRows) ==
    IF Narrow(w, h, bestCols, bestRows)
    THEN Max((bestRows * w + h - 1) \div h, bestCols + 2)
    ELSE bestCols

\* The dimensions passed to generateMapLayout (lines 118-152).
finalSize(w, h, bestCols, bestRows) ==
    LET size == fallbackSize(w, h, bestCols, bestRows)
    IN  [cols |-> widen(w, h, size.cols, size.rows), rows |-> oddRows(size.rows)]

\* sizing when the for loop is entered (line 77).
Entered(w, h, hinted, isNaN) ==
    [availableWidth |-> w, availableHeight |-> h, blockSize |-> 2 * minBlockSize,
     bestCols |-> 0, bestRows |-> 0, bestUtilization |-> 0, returned |-> FALSE,
     hinted |-> hinted, isNaN |-> isNaN, threw |-> FALSE]

SizeInit ==
        /\ \/ \E w \in HintWidths, h \in HintHeights :
                sizing = Entered(w, h, TRUE, FALSE)
           \/ \E viewport \in Viewports \cup {NoViewport} :
                sizing = IF viewport = NoViewport
                         THEN Entered(0, 0, FALSE, TRUE)
                         ELSE Entered(Min(viewport[1], maxGameWidth) - padding,
                                      viewport[2] - headerHeight - controlsHeight - padding,
                                      FALSE, FALSE)
        \* no grid and no game state exist before the function returns
        /\ grid = << >>
        /\ player = [pos |-> Pos(0, 0), dir |-> NoDir, nextDir |-> NoDir]
        /\ ghosts = << >>
        /\ score = 0
        /\ status = "IDLE"
        /\ lives = InitialLives
        /\ activeMessage = NoMessage
        /\ ghostMoveCounters = [k \in 0..NumGhosts |-> 0]
        /\ ghostLastTurnTick = [k \in 1..NumGhosts |-> 0]
        /\ gameTick = 0
        /\ winSequenceTriggered = FALSE
        /\ winTimers = 0
        /\ rendered = "IDLE"
        /\ replay = Off
        /\ detour = 0
        /\ visited = {}
        /\ queue = << >>
        /\ lastTime = 0
        /\ accumulatedTime = 0

\* One iteration of the for loop (lines 77-116).  Where the two scores are
\* closer than the precision of totalScore, either outcome of
\* "totalScore > bestUtilization" is taken.
TryBlockSize ==
    /\ ~sizing.returned /\ ~sizing.threw
    /\ sizing.blockSize <= 2 * maxBlockSize
    /\ LET cols == fitCols(sizing.availableWidth, sizing.blockSize)
           rows == fitRows(sizing.availableHeight, sizing.blockSize)
           total == totalScore(sizing.availableWidth, sizing.availableHeight,
                               sizing.blockSize, cols, rows)
           next == [sizing EXCEPT !.blockSize = @ + 1]
       IN  IF sizing.isNaN
           \* cols and rows are NaN: neither "continue" is taken, and
           \* totalScore, being NaN, is not greater than bestUtilization
           THEN sizing' = next
           ELSE IF ~Fits(cols, rows)
           THEN sizing' = next
           ELSE \E better \in BOOLEAN :
                  /\ better => total > sizing.bestUtilization - ScoreSlack
                  /\ ~better => total < sizing.bestUtilization + ScoreSlack
                  /\ sizing' = IF better
                               THEN [next EXCEPT !.bestUtilization = total,
                                                 !.bestCols = cols, !.bestRows = rows]
                               ELSE next
    /\ UNCHANGED <<state, refCells, winSequenceTriggered, winTimers, rendered,
                   replay, detour, fill, loopLocals>>

\* Lines 118-152: fallback, widening, odd rows, generateMapLayout.  With
\* NaN sizes the fallback gives NaN columns and rows; generateMapLayout(NaN,
\* NaN) builds no row (y < rows is false), and for the first obstacle
\* canPlaceWall passes its two range tests (comparisons with NaN are false)
\* and reads grid[y][x] of the empty array: a TypeError leaves the function.
ReturnLayout ==
    /\ ~sizing.returned /\ ~sizing.threw
    /\ sizing.blockSize > 2 * maxBlockSize
    /\ IF sizing.isNaN
       THEN /\ sizing' = [sizing EXCEPT !.threw = TRUE]
            /\ UNCHANGED grid
       ELSE /\ LET size == finalSize(sizing.availableWidth, sizing.availableHeight,
                                     sizing.bestCols, sizing.bestRows)
               IN  grid' = generateMapLayout(size.cols, size.rows)
            /\ sizing' = [sizing EXCEPT !.returned = TRUE]
    /\ UNCHANGED <<player, ghosts, score, status, lives, activeMessage, refCells,
                   winSequenceTriggered, winTimers, rendered, replay, detour,
                   fill, loopLocals>>

SizeNext == TryBlockSize \/ ReturnLayout

SizeSpec == SizeInit /\ [][SizeNext]_vars

(* ------------------------------------------------------------------ *)
(* The game loop (lines 833-1031)                                      *)
(* ------------------------------------------------------------------ *)
\* FrameSpec runs the requestAnimationFrame callback of a started game on
\* the smallest grid: each step is one call of gameLoop(currentTime) with
\* currentTime - lastTime drawn from FrameDeltas, until FrameMaxTime.
\* Times are whole milliseconds counted from the start of the effect.
GAME_SPEED_MS == 180
FrameDeltas == {90, 180, 400}
FrameMaxTime == 760

\* "if (allGhostsEaten) { if (!winSequenceTriggered.current)" without the
\* test of the latch.
winDueUnlatched(allGhostsEaten, triggered) == allGhostsEaten

\* "if (allGhostsEaten) { if (!winSequenceTriggered.current)" (lines 968-969).
winDue(allGhostsEaten, triggered) == allGhostsEaten /\ ~triggered

\* What a tick may draw: the moves of the agents for every outcome of their
\* Math.random() calls, and whether the message has expired (Date.now()).
TickOutcomes ==
    MoveGhosts(1, ghosts, grid, moveEntity(player, grid),
               [ghostMoveCounters |-> ghostMoveCounters,
                ghostLastTurnTick |-> ghostLastTurnTick,
                gameTick |-> gameTick]) \X BOOLEAN

\* The draws of the next tick of the reference play-through.
ScriptedOutcomes ==
    {<<MoveGhostsWith(1, ghosts, grid, moveEntity(player, grid),
                      [ghostMoveCounters |-> ghostMoveCounters,
                       ghostLastTurnTick |-> ghostLastTurnTick,
                       gameTick |-> gameTick], NextEv.draws),
       NextEv.expired>>}

\* The updater passed to setGameState by the game loop (lines 848-1019) and
\* its writes to the ref cells, for one of the given outcomes of the draws.
Resolve(outcomes) ==
    IF status # "PLAYING"
    THEN UNCHANGED <<state, refCells, winSequenceTriggered, winTimers>>
    ELSE \E outcome \in outcomes :
               LET new == TickResult(outcome[1], outcome[2])
               IN  /\ player' = new.player
                   /\ ghosts' = new.ghosts
                   /\ grid' = new.grid
                   /\ score' = new.score
                   /\ activeMessage' = new.activeMessage
                   /\ ghostMoveCounters' = new.refs.ghostMoveCounters
                   /\ ghostLastTurnTick' = new.refs.ghostLastTurnTick
                   /\ gameTick' = new.refs.gameTick
                   /\ IF winDue(new.allGhostsEaten, winSequenceTriggered)
                      THEN /\ winSequenceTriggered' = TRUE
                           /\ winTimers' = winTimers + 1
                      ELSE UNCHANGED <<winSequenceTriggered, winTimers>>
                   /\ UNCHANGED <<status, lives>>

\* "accumulatedTime = 0" with the interval subtracted instead.
restCarried(accumulated) == accumulated - GAME_SPEED_MS

\* "accumulatedTime = 0" (line 846).
rest(accumulated) == 0

FrameInit ==
    \E dir \in DirSet :
      \E initial \in {getInitialGameState(<<MinCols, MinRows>>)} :
        /\ grid = initial.grid
        /\ player = [initial.player EXCEPT !.nextDir = dir]
        /\ ghosts = initial.ghosts
        /\ score = initial.score
        /\ status = "PLAYING"
        /\ lives = initial.lives
        /\ activeMessage = initial.activeMessage
        /\ ghostMoveCounters = [k \in 0..NumGhosts |-> 0]
        /\ ghostLastTurnTick = [k \in 1..NumGhosts |-> 0]
        /\ gameTick = 0
        /\ winSequenceTriggered = FALSE
        /\ winTimers = 0
        /\ rendered = "PLAYING"
        /\ replay = Off
        /\ detour = 0
        /\ visited = {}
        /\ queue = << >>
        /\ sizing = NoSizing
        /\ lastTime = 0
        /\ accumulatedTime = 0

\* gameLoop(currentTime) (lines 839-1023).
Frame ==
    \E deltaTime \in FrameDeltas :
      /\ rendered = "PLAYING"
      /\ lastTime + deltaTime <= FrameMaxTime
      /\ lastTime' = lastTime + deltaTime
      /\ IF accumulatedTime + deltaTime >= GAME_SPEED_MS
         THEN /\ accumulatedTime' = rest(accumulatedTime + deltaTime)
              /\ Resolve(TickOutcomes)
         ELSE /\ accumulatedTime' = accumulatedTime + deltaTime
              /\ UNCHANGED <<state, refCells, winSequenceTriggered, winTimers>>
      /\ UNCHANGED <<rendered, replay, detour, fill, sizing>>

FrameNext == Frame

FrameSpec == FrameInit /\ [][FrameNext]_vars

(* ------------------------------------------------------------------ *)
(* The win sequence (lines 966-978)                                    *)
(* ------------------------------------------------------------------ *)
\* WinSpec follows the reference play-through WinningPlay up to the tick in
\* which the last agent is eaten, and from there takes any step of the
\* program: inputs, restarts, renders, the timer callback, and at most
\* MaxGraceTicks further ticks.  A timer set by setTimeout fires unless the
\* page is closed: the timer callback is weakly fair.
MaxGraceTicks == 3

WinInit ==
    \E initial \in {getInitialGameState(<<MinCols, MinRows>>)} :
        /\ grid = initial.grid
        /\ player = initial.player
        /\ ghosts = initial.ghosts
        /\ score = initial.score
        /\ status = initial.status
        /\ lives = initial.lives
        /\ activeMessage = initial.activeMessage
        /\ ghostMoveCounters = [k \in 0..NumGhosts |-> 0]
        /\ ghostLastTurnTick = [k \in 1..NumGhosts |-> 0]
        /\ gameTick = 0
        /\ winSequenceTriggered = FALSE
        /\ winTimers = 0
        /\ rendered = "IDLE"
        /\ replay = [run |-> 1, at |-> 0]
        /\ detour = MaxDetour
        /\ visited = {}
        /\ queue = << >>
        /\ sizing = NoSizing
        /\ lastTime = 0
        /\ accumulatedTime = 0

InGrace == winSequenceTriggered \/ replay = Off

\* The inputs and renders of the play-through, up to its winning tick.
Scripted ==
    /\ ~InGrace
    /\ \/ \E dir \in DirSet : SetDirection(dir)
       \/ Render

\* A frame of the game loop that resolves a tick (lines 839-1023): the next
\* tick of the play-through or, from the winning tick on, any tick.
WinTick ==
    /\ rendered = "PLAYING"
    /\ IF InGrace
       THEN /\ detour < MaxDetour + MaxGraceTicks
            /\ detour' = detour + 1
            /\ replay' = Off
       ELSE /\ NextEv.op = "tick"
            /\ Sched(TRUE)
    /\ Resolve(IF InGrace THEN TickOutcomes ELSE ScriptedOutcomes)
    /\ UNCHANGED <<rendered, fill, locals>>

\* setDirection (lines 350-362).
GraceInput(dir) ==
    /\ InGrace
    /\ replay' = Off
    /\ IF rendered # "PLAYING" /\ rendered # "IDLE"
       THEN UNCHANGED <<player, status>>
       ELSE IF rendered = "IDLE"
       THEN /\ status' = "PLAYING"
            /\ player' = [player EXCEPT !.nextDir = dir]
       ELSE /\ player' = [player EXCEPT !.nextDir = dir]
            /\ UNCHANGED status
    /\ UNCHANGED <<grid, ghosts, score, lives, activeMessage, refCells,
                   winSequenceTriggered, winTimers, rendered, detour, fill, locals>>

\* restartGame (lines 364-367).
GraceRestart ==
    /\ InGrace
    /\ replay' = Off
    /\ winSequenceTriggered' = FALSE
    /\ \E initial \in {getInitialGameState(<<MinCols, MinRows>>)} :
           /\ grid' = initial.grid
           /\ player' = initial.player
           /\ ghosts' = initial.ghosts
           /\ score' = initial.score
           /\ status' = initial.status
           /\ lives' = initial.lives
           /\ activeMessage' = initial.activeMessage
    /\ UNCHANGED <<refCells, winTimers, rendered, detour, fill, locals>>

\* The callback of setTimeout(..., 1000) (lines 973-975).
GraceTimeout ==
    /\ InGrace
    /\ winTimers > 0
    /\ replay' = Off
    /\ winTimers' = winTimers - 1
    /\ status' = "WON"
    /\ UNCHANGED <<grid, player, ghosts, score, lives, activeMessage, refCells,
                   winSequenceTriggered, rendered, detour, fill, locals>>

\* React commits a render of the changed status.
GraceRender ==
    /\ InGrace
    /\ rendered # status
    /\ replay' = Off
    /\ rendered' = status
    /\ UNCHANGED <<state, refCells, winSequenceTriggered, winTimers, detour, fill, locals>>

WinNext ==
    \/ Scripted
    \/ WinTick
    \/ \E dir \in DirSet : GraceInput(dir)
    \/ GraceRestart
    \/ GraceTimeout
    \/ GraceRender

WinSpec == WinInit /\ [][WinNext]_vars /\ WF_vars(GraceTimeout)

(* ------------------------------------------------------------------ *)
(* Properties                                                          *)
(* ------------------------------------------------------------------ *)
\* The cells of a box w cells wide and h cells high whose top-left cell is
\* at the half-cell position pos.
Footprint(pos, w, h) ==
    {<<(pos.x \div 2) + dx, (pos.y \div 2) + dy>> : dx \in 0..(w - 1), dy \in 0..(h - 1)}

\* All the cells are cells of the grid and none is a WALL.
InsideNoWall(g, cells) ==
    \A c \in cells : CellAt(g, c[1], c[2]) # -1 /\ CellAt(g, c[1], c[2]) # WALL

SameShape(g, h) == Rows(g) = Rows(h) /\ Cols(g) = Cols(h)

\* The cells that are PELLET in g and EMPTY in h.
Cleared(g, h) ==
    {c \in (1..Cols(g)) \X (1..Rows(g)) : g[c[2]][c[1]] = PELLET /\ h[c[2]][c[1]] = EMPTY}

\* The agents whose isEaten becomes true in a step.
NewlyEaten == {i \in 1..Len(ghosts) : ghosts'[i].isEaten /\ ~ghosts[i].isEaten}

\* The agents that are not active and not eaten.
Pending == {i \in 1..Len(ghosts) : ~ghosts[i].isActive /\ ~ghosts[i].isEaten}

\* A step of restartGame.  The first conjuncts repeat what RestartGame and
\* the generator fix (the cells it leaves alone, the size of the grid), so
\* that the session is rebuilt only for the steps that can be restarts.
IsRestart ==
    /\ UNCHANGED <<refCells, winTimers, rendered>>
    /\ \E size \in GridSizes :
          /\ size = <<Cols(grid'), Rows(grid')>>
          /\ RestartGame(size)
IsInput == \E dir \in DirSet : SetDirection(dir)
PlayingTick == status = "PLAYING" /\ Tick

\* C1: at the initial state and after every tick, the player's 3x5 footprint
\* and the 2x2 footprint of every active agent lie inside the grid and
\* contain no WALL cell.
C1_FootprintsLegal ==
    /\ InsideNoWall(grid, Footprint(player.pos, PLAYER_WIDTH, PLAYER_HEIGHT))
    /\ \A i \in 1..Len(ghosts) :
          ghosts[i].isActive =>
              InsideNoWall(grid, Footprint(ghosts[i].pos, GhostCells, GhostCells))

\* C2: status becomes WON only in a state in which every agent of the
\* session's pool is eaten, whatever the interleaving of ticks, inputs,
\* restart and the deferred win timer.
C2_WonOnlyWhenAllEaten ==
    [][status # "WON" /\ status' = "WON" =>
          \A i \in 1..Len(ghosts') : ghosts'[i].isEaten]_vars

\* C3: a step that is not a restart adds to the score 10 per cell that
\* changes from PELLET to EMPTY and 200 per agent newly eaten, so the score
\* does not decrease; setDirection, the deferred win transition and a render
\* leave the score unchanged.
C3_ScoreAccounting ==
    [][/\ (IsInput \/ WinTimeout \/ Render) => score' = score
       /\ \/ /\ SameShape(grid, grid')
             /\ score' = score + PelletReward * Cardinality(Cleared(grid, grid'))
                               + GhostReward * Cardinality(NewlyEaten)
             /\ score' >= score
          \/ IsRestart]_vars

C3_ScoredBoth ==
    /\ score >= GhostReward + PelletReward
    /\ score % GhostReward # 0
    /\ \E i \in 1..Len(ghosts) : ghosts[i].isEaten

\* C4: a step that is not a restart leaves every grid cell unchanged or
\* changes it from PELLET to EMPTY; setDirection, the deferred win transition
\* and a render leave the grid unchanged.
C4_GridFrame ==
    [][/\ (IsInput \/ WinTimeout \/ Render) => grid' = grid
       /\ \/ /\ SameShape(grid, grid')
             /\ \A y \in 1..Rows(grid), x \in 1..Cols(grid) :
                   \/ grid'[y][x] = grid[y][x]
                   \/ grid[y][x] = PELLET /\ grid'[y][x] = EMPTY
          \/ IsRestart]_vars

C4_PelletConsumed ==
    \E y \in 1..Rows(grid), x \in 1..Cols(grid) :
        /\ grid[y][x] = EMPTY
        /\ generateMapLayout(Cols(grid), Rows(grid))[y][x] = PELLET

\* C5: in the grid of every reachable state (generated for cols >= 12 and
\* rows >= 15, then subject to ticks) every cell of the outermost ring is WALL.
C5_BorderRing ==
    \A y \in 1..Rows(grid), x \in 1..Cols(grid) :
        (x = 1 \/ x = Cols(grid) \/ y = 1 \/ y = Rows(grid)) => grid[y][x] = WALL

C5_LargerGridPlayed ==
    /\ Cols(grid) = MaxCols /\ Rows(grid) = MaxRows
    /\ Cols(grid) >= MinCols /\ Rows(grid) >= MinRows
    /\ score > 0

\* C6: in a tick an agent becomes eaten (isActive false, isEaten true) if and
\* only if it was active and not eaten and the player's box at its new
\* position overlaps the agent's box at its new position; a pending agent is
\* never eaten.
C6_EatenIffCollision ==
    [][PlayingTick =>
          \A i \in 1..Len(ghosts) :
             /\ (ghosts'[i].isEaten /\ ~ghosts[i].isEaten) <=>
                   /\ ghosts[i].isActive
                   /\ ~ghosts[i].isEaten
                   /\ collision(player'.pos, ghosts'[i].pos)
             /\ ghosts'[i].isEaten => ~ghosts'[i].isActive
             /\ i \in Pending => ~ghosts'[i].isEaten]_vars

C6_PendingUnderPlayer ==
    /\ score > 0
    /\ \E i \in 1..Len(ghosts) : ghosts[i].isEaten /\ ~ghosts[i].isActive
    /\ \E j \in Pending : collision(player.pos, ghosts[j].pos)

\* C7: in a tick in which an agent is eaten and a pending agent exists,
\* exactly the first pending agent becomes active, on a GHOST_SPAWN cell of
\* largest squared distance to the player's new position, with direction UP
\* and no queued turn; in any other tick no agent is activated.
C7_ActivateOne ==
    [][PlayingTick =>
          LET activated == {i \in 1..Len(ghosts) : ghosts'[i].isActive /\ ~ghosts[i].isActive}
              spawns == {c \in (0..(Cols(grid) - 1)) \X (0..(Rows(grid) - 1)) :
                            CellAt(grid, c[1], c[2]) = GHOST_SPAWN}
              far(c) == SqDist(U(c[1]), U(c[2]), player'.pos.x, player'.pos.y)
          IN  IF NewlyEaten # {} /\ Pending # {}
              THEN /\ activated = {CHOOSE i \in Pending : \A j \in Pending : i <= j}
                   /\ \A i \in activated :
                         /\ \E s \in spawns :
                               /\ ghosts'[i].pos = HalfPos(Pos(s[1], s[2]))
                               /\ \A t \in spawns : far(t) <= far(s)
                         /\ ghosts'[i].dir = "UP"
                         /\ ghosts'[i].nextDir = NoDir
                         /\ ~ghosts'[i].isEaten
              ELSE activated = {}]_vars

C7_Activated ==
    \E i \in (InitialActive + 1)..Len(ghosts) : ghosts[i].isActive

\* C8: when the player stands at x = cols - w, the rows it occupies hold no
\* wall and the advance is made in direction RIGHT, one moveEntity yields
\* x = 0 with y unchanged.
C8_WrapRight ==
    [][(/\ Advance
        /\ player.pos.x = U(Cols(grid)) - U(PLAYER_WIDTH)
        /\ \A x \in 0..(Cols(grid) - 1) :
              InsideNoWall(grid, Footprint(Pos(U(x), player.pos.y), 1, PLAYER_HEIGHT))
        /\ player'.dir = "RIGHT")
       => (player'.pos.x = 0 /\ player'.pos.y = player.pos.y)]_vars

C8_Wrapped ==
    /\ player.dir = "RIGHT"
    /\ player.pos.x = 0
    /\ \E x \in 1..Cols(grid), y \in 1..Rows(grid) : grid[y][x] = WALL

\* C9: when the player's footprint shifted one cell in its queued direction
\* lies inside the grid and contains no WALL cell, a tick in PLAYING moves
\* the player exactly one cell in that direction and makes it the active
\* direction.
C9_QueuedTurnTaken ==
    [][(/\ PlayingTick
        /\ player.nextDir # NoDir
        /\ InsideNoWall(grid, Footprint(Target(player.pos, player.nextDir),
                                        PLAYER_WIDTH, PLAYER_HEIGHT)))
       => (/\ player'.pos = Target(player.pos, player.nextDir)
           /\ player'.dir = player.nextDir)]_vars

C9_TurnTaken ==
    /\ player.dir # NoDir
    /\ player.dir = player.nextDir
    /\ player.pos # InitialPlayer(grid).pos

\* C10: a setDirection while status is WON or GAME_OVER leaves the whole
\* session state unchanged, also when the callback handling it captured the
\* status before the terminal transition.
C10_TerminalInputIgnored ==
    [][IsInput /\ status \in {"WON", "GAME_OVER"} => UNCHANGED state]_vars

Terminal == {"WON", "GAME_OVER"}

\* C11 (as stated): a restart while status is WON or GAME_OVER changes
\* neither status, score, grid, player nor agents.
C11_TerminalRestartNoOp ==
    [][(status \in Terminal /\ IsRestart) => UNCHANGED state]_vars

\* C11 (amended): a restart while status is WON or GAME_OVER replaces the
\* session state: status becomes IDLE, the score 0, no agent is eaten, the
\* player has no direction and no queued turn, and the win latch is cleared.
C11_TerminalRestartResets ==
    [][(status \in Terminal /\ IsRestart) =>
          /\ status' = "IDLE"
          /\ score' = 0
          /\ \A i \in 1..Len(ghosts') : ~ghosts'[i].isEaten
          /\ player'.dir = NoDir /\ player'.nextDir = NoDir
          /\ ~winSequenceTriggered']_vars

\* A restart has acted on a session whose WON status had been rendered.
C11_RestartedFromWon ==
    /\ status = "IDLE"
    /\ rendered = "WON"
    /\ score = 0

\* The state getInitialGameState promises, on a grid of the sizes in use.
Fresh(g, p, gs, sc, st) ==
    /\ st = "IDLE"
    /\ sc = 0
    /\ p.dir = NoDir /\ p.nextDir = NoDir
    /\ Len(gs) = NumGhosts
    /\ \A i \in 1..Len(gs) :
          /\ gs[i].id = i
          /\ gs[i].isActive <=> i <= InitialActive
          /\ ~gs[i].isEaten
    /\ g = generateMapLayout(Cols(g), Rows(g))
    /\ \E y \in 1..Rows(g), x \in 1..Cols(g) : g[y][x] = PELLET

\* C12: at session start and after a restart from any status, the state is
\* status IDLE, score 0, a player with no direction and no queued turn, a
\* pool of 8 agents in fixed order of which exactly the first 2 are active
\* and none is eaten, on a freshly generated grid with every pellet in place.
C12_FreshAfterRestart ==
    /\ Fresh(grid, player, ghosts, score, status)
    /\ [][IsRestart => Fresh(grid', player', ghosts', score', status')]_vars

\* A restart has acted on a running session after at least one tick.
C12_RestartedWhilePlaying ==
    /\ status = "IDLE"
    /\ rendered = "PLAYING"
    /\ gameTick > 0
    /\ Fresh(grid, player, ghosts, score, status)

\* C13: a setDirection(d) while status is IDLE sets status to PLAYING and
\* stores d as the queued turn; while status is PLAYING it replaces the
\* queued turn with d; in both cases position, active direction, agents,
\* grid and score are untouched.
C13_SetDirectionContract ==
    [][\A d \in DirSet :
          (SetDirection(d) /\ status \in {"IDLE", "PLAYING"}) =>
              /\ status' = "PLAYING"
              /\ player' = [player EXCEPT !.nextDir = d]
              /\ UNCHANGED <<grid, ghosts, score, lives, activeMessage>>]_vars

\* C14: status changes only from IDLE to PLAYING by a direction input, from
\* PLAYING to WON or GAME_OVER by a tick or the deferred win transition, and
\* from any status to IDLE by a restart.
C14_StatusEdges ==
    [][status' # status =>
          \/ status = "IDLE" /\ status' = "PLAYING" /\ IsInput
          \/ status = "PLAYING" /\ status' \in Terminal /\ (Tick \/ WinTimeout)
          \/ status' = "IDLE" /\ IsRestart]_vars

\* C15: no callback left over from a superseded session modifies the state
\* of the session that replaced it.  A session sets winSequenceTriggered when
\* it schedules its win timer and only a restart clears it, so a timer that
\* fires while the latch is clear was scheduled before the last restart; a
\* frame of the loop that outlives PLAYING finds a status other than PLAYING.
C15_NoOrphanedCallback ==
    [][((WinTimeout /\ ~winSequenceTriggered) \/ (Tick /\ status # "PLAYING"))
          => UNCHANGED state]_vars

\* The agent has no free neighbouring position: shifted one cell in any of
\* the four directions its footprint leaves the grid or covers a WALL cell.
Boxed(g, ghost) ==
    \A d \in DirSet :
        ~InsideNoWall(g, Footprint(Target(ghost.pos, d), GhostCells, GhostCells))

\* C16: when an active agent has no valid move in any of the four
\* directions, the agent step of a tick leaves its position and direction
\* unchanged, and moveGhost returns the agent as it is for every outcome of
\* its random draws (no draw indexes the empty list of moves).
C16_BoxedAgentHolds ==
    /\ [][AgentMove =>
             \A i \in 1..Len(ghosts) :
                (ghosts[i].isActive /\ Boxed(grid, ghosts[i])) =>
                    /\ ghosts'[i].pos = ghosts[i].pos
                    /\ ghosts'[i].dir = ghosts[i].dir]_vars
    /\ [](\A i \in 1..Len(ghosts) :
            (ghosts[i].isActive /\ Boxed(grid, ghosts[i])) =>
                \A draw \in DrawsFor(getGhostBehavior(ghosts[i].id)) :
                    LET r == moveGhost(ghosts[i], grid, player,
                                       [ghostMoveCounters |-> ghostMoveCounters,
                                        ghostLastTurnTick |-> ghostLastTurnTick,
                                        gameTick |-> gameTick], draw)
                    IN  r.ok /\ r.ghost = ghosts[i])

\* A boxed-in active agent after a step on which agents move (the shared
\* counter was not a multiple of 5).
C16_BoxedAgentStepped ==
    /\ ghostMoveCounters[GlobalTick] >= 2
    /\ \E i \in 1..Len(ghosts) : ghosts[i].isActive /\ Boxed(grid, ghosts[i])

\* The footprint sizes the engine passes to isValidMove, in half-cells.
FootprintSizes == {<<U(PLAYER_WIDTH), U(PLAYER_HEIGHT)>>, <<GHOST_SIZE, GHOST_SIZE>>}

\* The box [pos.x, pos.x + w) x [pos.y, pos.y + h) lies in the grid.
Contained(g, pos, w, h) ==
    /\ pos.x >= 0 /\ pos.y >= 0
    /\ pos.x + w <= U(Cols(g)) /\ pos.y + h <= U(Rows(g))

\* The cells of the grid that the box overlaps.
Covered(g, pos, w, h) ==
    {c \in (0..(Cols(g) - 1)) \X (0..(Rows(g) - 1)) :
        /\ U(c[1]) < pos.x + w /\ U(c[1]) + U(1) > pos.x
        /\ U(c[2]) < pos.y + h /\ U(c[2]) + U(1) > pos.y}

C18_EatenIsFinal ==
    /\ [][\/ \A i \in 1..Len(ghosts) :
                ghosts[i].isEaten =>
                    /\ Len(ghosts') = Len(ghosts)
                    /\ ghosts'[i].isEaten
                    /\ ~ghosts'[i].isActive
                    /\ ghosts'[i].pos = ghosts[i].pos
                    /\ ghosts'[i].dir = ghosts[i].dir
           \/ IsRestart]_vars
    /\ [](\A i \in 1..Len(ghosts) : ~(ghosts[i].isActive /\ ghosts[i].isEaten))

\* Three agents have been eaten one after the other while others are active.
C18_SeveralEaten ==
    /\ Cardinality({i \in 1..Len(ghosts) : ghosts[i].isEaten}) >= 3
    /\ \E i \in 1..Len(ghosts) : ghosts[i].isActive
    /\ status = "PLAYING"

\* C19: a tick changes position, direction or queued turn of an agent only
\* if the agent is active at the start of the tick or is activated in it;
\* every other agent, pending or eaten, keeps all three.
C19_InactiveUntouched ==
    [][Tick =>
          \A i \in 1..Len(ghosts) :
             (~ghosts[i].isActive /\ ~ghosts'[i].isActive) =>
                 /\ ghosts'[i].pos = ghosts[i].pos
                 /\ ghosts'[i].dir = ghosts[i].dir
                 /\ ghosts'[i].nextDir = ghosts[i].nextDir]_vars

\* Ticks have moved agents while one agent is eaten and another still waits
\* on the spawn cell the session gave it.
C19_PendingWaited ==
    /\ gameTick >= 5
    /\ \E i \in 1..Len(ghosts) : ghosts[i].isEaten
    /\ \E j \in Pending : ghosts[j].pos = InitialGhosts(grid)[j].pos

\* C20: on every generated grid a first non-wall interior cell exists and
\* the flood fill from it, once its queue is empty, has visited every
\* non-wall interior cell (visited.size === walkableCount).
C20_GeneratedGridConnected ==
    /\ WalkableInterior(grid) # {}
    /\ (queue = << >> /\ visited # {}) =>
          /\ visited = WalkableInterior(grid)
          /\ Cardinality(visited) = Cardinality(WalkableInterior(grid))

\* The flood fill has run to its end on the largest generated grid, whose
\* interior holds obstacle walls.
C20_FillFinished ==
    /\ queue = << >>
    /\ visited # {}
    /\ Cols(grid) = GenMaxCols /\ Rows(grid) = GenMaxRows
    /\ \E x \in 1..(Cols(grid) - 2), y \in 1..(Rows(grid) - 2) : CellAt(grid, x, y) = WALL

\* C21: in every generated grid every cell of the text-area rectangle is
\* EMPTY, and every cell the base grid marks GHOST_SPAWN is still GHOST_SPAWN
\* after the obstacles are placed, whatever shift the placement applied.
C21_TextAreaAndSpawnsKept ==
    LET base == BaseGrid(Cols(grid), Rows(grid))
    IN  \A y \in 0..(Rows(grid) - 1), x \in 0..(Cols(grid) - 1) :
           /\ InTextArea(Cols(grid), Rows(grid), x, y) => CellAt(grid, x, y) = EMPTY
           /\ base[y + 1][x + 1] = GHOST_SPAWN => CellAt(grid, x, y) = GHOST_SPAWN

\* A generated grid in which an obstacle was moved off a spawn point: the
\* two-cell bar aimed at the row of a GHOST_SPAWN cell lies one row above it.
C21_ObstacleShifted ==
    /\ visited # {}
    /\ \E y \in 0..(Rows(grid) - 1), x \in 0..(Cols(grid) - 1) :
          /\ InTextArea(Cols(grid), Rows(grid), x, y)
    /\ \E y \in 2..(Rows(grid) - 2), x \in 1..(Cols(grid) - 3) :
          /\ CellAt(grid, x, y) = GHOST_SPAWN
          /\ y = (Rows(grid) * 80) \div 100
          /\ CellAt(grid, x, y - 1) = WALL /\ CellAt(grid, x + 1, y - 1) = WALL

\* C22: every grid generateResponsiveMapLayout returns, for a positive
\* available width and height, is rectangular with at least MinCols (12)
\* columns and at least MinRows (15) rows; this includes the hints for
\* which no block size fits, and the widening and odd-rows corrections.
C22_ReturnedGridLargeEnough ==
    (sizing.returned /\ sizing.availableWidth > 0 /\ sizing.availableHeight > 0) =>
        /\ Rows(grid) >= MinRows
        /\ \A y \in 1..Rows(grid) : Len(grid[y]) = Cols(grid)
        /\ Cols(grid) >= MinCols

\* Returned grids of each kind: one sized by the fallback and then widened,
\* and one whose best candidate had an even number of rows just above the
\* minimum, so that the odd-rows correction brought it to the minimum.
C22_FallbackWidened ==
    /\ sizing.returned /\ sizing.availableWidth > 0
    /\ sizing.bestCols = 0
    /\ Cols(grid) > FallbackMaxCols
    /\ Rows(grid) = FallbackMinRows - 1

C22_EvenRowsAtMinimum ==
    /\ sizing.returned /\ sizing.availableWidth > 0
    /\ sizing.bestRows = MinRows + 1
    /\ Rows(grid) = MinRows

\* The step is one resolution of a tick: the game state and the ref cells
\* are those a single run of the updater produces from the current ones.
OneTickResolved ==
    LET newPlayer == moveEntity(player, grid)
        refs == [ghostMoveCounters |-> ghostMoveCounters,
                 ghostLastTurnTick |-> ghostLastTurnTick, gameTick |-> gameTick]
    IN  \E moved \in MoveGhosts(1, ghosts, grid, newPlayer, refs) :
        \E expired \in BOOLEAN :
          LET new == TickResult(moved, expired)
          IN  /\ <<grid, player, ghosts, score, activeMessage>>'
                   = <<new.grid, new.player, new.ghosts, new.score, new.activeMessage>>
              /\ refCells' = <<new.refs.ghostMoveCounters, new.refs.ghostLastTurnTick,
                               new.refs.gameTick>>
              /\ UNCHANGED <<status, lives>>

\* C23: a frame callback changes the game state only when the time
\* accumulated since the previous tick, the frame's elapsed time included,
\* is at least GAME_SPEED_MS (180 ms); it then resolves exactly one tick
\* and leaves the accumulator at 0, however long the frame was; a frame
\* below the threshold only adds its elapsed time to the accumulator.
C23_OneTickPerFrame ==
    [][LET deltaTime == lastTime' - lastTime
           accumulated == accumulatedTime + deltaTime
       IN  /\ <<state, refCells>>' # <<state, refCells>>
                => accumulated >= GAME_SPEED_MS
           /\ accumulated >= GAME_SPEED_MS
                => accumulatedTime' = 0 /\ OneTickResolved
           /\ accumulated < GAME_SPEED_MS
                => accumulatedTime' = accumulated /\ UNCHANGED <<state, refCells>>]_vars

\* The first frame came more than two intervals after the start of the loop
\* and the agents have moved once, not twice.
C23_LongFrameTicked ==
    /\ lastTime > 2 * GAME_SPEED_MS
    /\ lastTime \in FrameDeltas
    /\ accumulatedTime = 0
    /\ ghostMoveCounters[GlobalTick] = InitialActive

\* C24: a call of the generator without hints, in an environment that
\* supplies no viewport size, does not fail: it returns, and the grid it
\* returns is INITIAL_MAP_LAYOUT.
C24_FallsBackToInitialLayout ==
    (~sizing.hinted /\ sizing.isNaN) =>
        /\ ~sizing.threw
        /\ sizing.returned => grid = INITIAL_MAP_LAYOUT

\* C25: the global pacing holds agents for whole ticks.  The calls of
\* moveGhost in a tick read the values first .. last of the shared counter;
\* when one of them is a value the pacing holds (a multiple of 5), no agent
\* that was active at the start of the tick changes position in that tick.
C25_PacingSkipsWholeTicks ==
    [][PlayingTick =>
         LET first == ghostMoveCounters[GlobalTick]
             last == ghostMoveCounters'[GlobalTick] - 1
         IN  (\E call \in first..last : call % 5 = 0) =>
                 \A i \in 1..Len(ghosts) :
                     ghosts[i].isActive => ghosts'[i].pos = ghosts[i].pos]_vars

\* C26: on every grid, bordered or not, an entity whose footprint is inside
\* the grid and wall-free keeps such a footprint through moveEntity, also
\* when the step wraps it to the opposite edge.
C26_AdvanceKeepsFootprintLegal ==
    [][(Advance /\ InsideNoWall(grid, Footprint(player.pos, PLAYER_WIDTH, PLAYER_HEIGHT)))
          => InsideNoWall(grid, Footprint(player'.pos, PLAYER_WIDTH, PLAYER_HEIGHT))]_vars

AllEaten(gs) == \A i \in 1..Len(gs) : gs[i].isEaten

\* C27: the tick in which the last agent is eaten leaves status PLAYING and
\* schedules the WON transition once; no step taken while all agents are
\* eaten schedules it again; unless a restart intervenes, status then
\* eventually becomes WON, and it stays WON until a restart.
C27_WinSequence ==
    /\ [][(~AllEaten(ghosts) /\ AllEaten(ghosts'))
            => (status' = "PLAYING" /\ winTimers' = winTimers + 1)]_vars
    /\ [][AllEaten(ghosts) => winTimers' <= winTimers]_vars
    /\ [][(status = "WON" /\ AllEaten(ghosts) /\ AllEaten(ghosts'))
            => status' = "WON"]_vars
    /\ (AllEaten(ghosts) ~> (status = "WON" \/ ~AllEaten(ghosts)))

\* The game was won after ticks of the grace period: every agent is eaten,
\* ticks were resolved after the winning one, the timer has fired.
C27_WonAfterGrace ==
    /\ AllEaten(ghosts)
    /\ status = "WON"
    /\ winTimers = 0
    /\ detour > MaxDetour

\* The position one step from the player in direction d after the wrap
\* normalization of the turn check, and the clamped target the move is
\* validated on.
TurnCheckPos(d) ==
    Pos(Snap(Target(player.pos, d).x, U(Cols(grid)) - U(PLAYER_WIDTH)),
        Snap(Target(player.pos, d).y, U(Rows(grid)) - U(PLAYER_HEIGHT)))
ValidatedPos(d) ==
    LET limitX == U(Cols(grid)) - U(PLAYER_WIDTH)
        limitY == U(Rows(grid)) - U(PLAYER_HEIGHT)
    IN  Pos(Clamp(WrapTarget(Target(player.pos, d).x, limitX), limitX),
            Clamp(WrapTarget(Target(player.pos, d).y, limitY), limitY))
LegalAt(pos) == InsideNoWall(grid, Footprint(pos, PLAYER_WIDTH, PLAYER_HEIGHT))

\* C28: moveEntity makes the queued turn the active direction exactly when
\* the footprint one step in the queued direction, wrap-normalized, is
\* valid, and keeps the current direction otherwise; the entity moves one
\* step in the active direction when that step is valid; when it is
\* blocked the position is unchanged and the direction is kept; the queued
\* turn is still queued afterwards.
C28_QueuedTurnContract ==
    [][Advance =>
         LET turn == player.nextDir # NoDir /\ LegalAt(TurnCheckPos(player.nextDir))
             active == IF turn THEN player.nextDir ELSE player.dir
             free == active # NoDir /\ LegalAt(ValidatedPos(active))
         IN  /\ player.nextDir # NoDir /\ player.nextDir # player.dir =>
                    (player'.dir = player.nextDir <=> turn)
             /\ ~turn => player'.dir = player.dir
             /\ player'.dir = active
             /\ free => player'.pos = TurnCheckPos(active)
             /\ ~free => player'.pos = player.pos
             /\ player'.nextDir = player.nextDir]_vars

\* The player moves in one direction with a different turn queued whose
\* step is not valid: the turn was refused and stays queued.
C28_TurnRefused ==
    /\ player.dir # NoDir
    /\ player.nextDir # NoDir /\ player.nextDir # player.dir
    /\ ~LegalAt(TurnCheckPos(player.nextDir))
    /\ LegalAt(player.pos)
    /\ LegalAt(ValidatedPos(player.dir))
    /\ TurnCheckPos(player.dir) # player.pos

\* At pos, facing dir, no direction other than the reversal of dir is a
\* valid move for an agent.
DeadEnd(pos, dir) ==
    \A d \in DirSet \ {Opposite(dir)} :
        ~InsideNoWall(grid, Footprint(Target(pos, d), GhostCells, GhostCells))

\* C29: an active agent turns to the reversal of its direction only in a
\* dead end, where no other direction is a valid move, or, for the erratic
\* policy, on a tick whose reversal draw succeeded.
C29_NoReversal ==
    /\ [][AgentMove =>
            \A i \in 1..Len(ghosts) :
                (ghosts[i].isActive /\ ghosts'[i].dir = Opposite(ghosts[i].dir)) =>
                    \/ DeadEnd(ghosts[i].pos, ghosts[i].dir)
                    \/ getGhostBehavior(ghosts[i].id) = "erratic"]_vars
    /\ [](\A i \in 1..Len(ghosts) :
            \A draw \in DrawsFor(getGhostBehavior(ghosts[i].id)) :
               LET moved == moveGhost(ghosts[i], grid, player,
                                      [ghostMoveCounters |-> ghostMoveCounters,
                                       ghostLastTurnTick |-> ghostLastTurnTick,
                                       gameTick |-> gameTick], draw)
               IN  (ghosts[i].isActive /\ moved.ok
                    /\ moved.ghost.dir = Opposite(ghosts[i].dir)) =>
                       \/ DeadEnd(ghosts[i].pos, ghosts[i].dir)
                       \/ getGhostBehavior(ghosts[i].id) = "erratic" /\ draw.rev)

\* An agent of another policy than erratic has moved and now heads away
\* from a position that is a dead end for the direction it reverses.
C29_ReversedInDeadEnd ==
    /\ gameTick > 0
    /\ \E i \in 1..Len(ghosts) :
          /\ ghosts[i].isActive
          /\ getGhostBehavior(ghosts[i].id) # "erratic"
          /\ InsideNoWall(grid, Footprint(ghosts[i].pos, GhostCells, GhostCells))
          /\ InsideNoWall(grid, Footprint(Target(ghosts[i].pos, Opposite(ghosts[i].dir)),
                                          GhostCells, GhostCells))
          /\ DeadEnd(Target(ghosts[i].pos, Opposite(ghosts[i].dir)), Opposite(ghosts[i].dir))

\* The advance engine run for an agent: its footprint, the chosen direction
\* as queued turn.
EngineStep(ghost, chosenDir) ==
    moveEntityWith([ghost EXCEPT !.nextDir = chosenDir], grid, GHOST_SIZE, GHOST_SIZE)

\* C30: the movement step of an agent ends at the position and in the
\* direction that moveEntity, run with the agent's footprint and the chosen
\* direction as queued turn, ends at: for every direction the candidate
\* filter can hand to the step, and for every step an agent takes.
C30_AgentStepIsEngineStep ==
    /\ [](\A i \in 1..Len(ghosts) : \A canReverse \in BOOLEAN :
            LET validMoves == ValidMoves(ghosts[i], grid, canReverse)
            IN  \A k \in 1..Len(validMoves) :
                   /\ CommitMove(ghosts[i], grid, validMoves[k]).pos
                         = EngineStep(ghosts[i], validMoves[k]).pos
                   /\ CommitMove(ghosts[i], grid, validMoves[k]).dir
                         = EngineStep(ghosts[i], validMoves[k]).dir)
    /\ [][StepMove =>
            \A i \in 1..Len(ghosts) :
                \/ ghosts'[i] = ghosts[i] /\ gameTick' = gameTick
                \/ /\ ghosts'[i].pos = EngineStep(ghosts[i], ghosts'[i].dir).pos
                   /\ ghosts'[i].dir = EngineStep(ghosts[i], ghosts'[i].dir).dir]_vars

\* An agent has taken a step to the left that ended at the right edge of a
\* grid whose left and right columns are free there: the step wrapped.
C30_AgentWrapped ==
    /\ gameTick > 0
    /\ \E i \in 1..Len(ghosts) :
          /\ ghosts[i].dir = "LEFT"
          /\ ghosts[i].pos.x = U(Cols(grid)) - GHOST_SIZE
          /\ isValidMove(grid, ghosts[i].pos, GHOST_SIZE, GHOST_SIZE)
          /\ isValidMove(grid, Pos(0, ghosts[i].pos.y), GHOST_SIZE, GHOST_SIZE)

\* C30 as stated: for every direction handed to it, blocked or not, the
\* movement step of an agent ends at the position and in the direction that
\* moveEntity, run with the agent's footprint and that direction as queued
\* turn, ends at.
C30_AnyDirectionIsEngineStep ==
    \A i \in 1..Len(ghosts) : \A chosenDir \in DirSet :
        /\ CommitMove(ghosts[i], grid, chosenDir).pos = EngineStep(ghosts[i], chosenDir).pos
        /\ CommitMove(ghosts[i], grid, chosenDir).dir = EngineStep(ghosts[i], chosenDir).dir

\* The coordinates of the spawn table for a grid of the size of g.
TableCells(g) ==
    {ghostSpawnTable(Cols(g), Rows(g))[i] : i \in 1..Len(ghostSpawnTable(Cols(g), Rows(g)))}

\* The GHOST_SPAWN cells of g.
SpawnCells(g) ==
    {ScanSpawns(g)[i] : i \in 1..Len(ScanSpawns(g))}

\* C31: a generated grid (cols >= 12, rows >= 15) has exactly 8 GHOST_SPAWN
\* cells, one at each coordinate of the spawn table.
C31_EightSpawns ==
    (grid # << >>) =>
        ((Cols(grid) >= MinCols /\ Rows(grid) >= MinRows) =>
            /\ Cardinality(SpawnCells(grid)) = 8
            /\ SpawnCells(grid) = TableCells(grid))

\* C32: when the selected grid is more than 1% narrower than the available
\* area (cols/rows < 0.99 * width/height), the returned grid has at least
\* ceil(rows * width/height) + 2 columns, rows being the selected row count.
C32_WidenedPastTarget ==
    (sizing.returned /\ sizing.availableWidth > 0 /\ sizing.availableHeight > 0) =>
        LET w == sizing.availableWidth
            h == sizing.availableHeight
            size == fallbackSize(w, h, sizing.bestCols, sizing.bestRows)
        IN  Narrow(w, h, size.cols, size.rows) =>
                Cols(grid) >= ((size.rows * w + h - 1) \div h) + 2

\* C33: a restart leaves the pacing and policy counters (the global pacing
\* counter, the per-agent counters of the slow and zigzag policies, the
\* last-turn ticks and the tick counter of the erratic policy) at their
\* initial values, so that the restarted session does not depend on what
\* was played before.
C33_RestartResetsCounters ==
    [][(\E size \in GridSizes : RestartGame(size)) =>
          /\ ghostMoveCounters' = [k \in 0..NumGhosts |-> 0]
          /\ ghostLastTurnTick' = [k \in 1..NumGhosts |-> 0]
          /\ gameTick' = 0]_vars

\* The squared distance, in half-cells, between position pos and the player
\* as the agents of a tick see it.
ToPlayer(pos) ==
    (pos.x - moveEntity(player, grid).pos.x) * (pos.x - moveEntity(player, grid).pos.x)
      + (pos.y - moveEntity(player, grid).pos.y) * (pos.y - moveEntity(player, grid).pos.y)

\* How far a squared distance is from the ideal 64 squared cells.
OffIdeal(sq) == IF sq < 256 THEN 256 - sq ELSE sq - 256

\* The refs with the shared pacing counter on a value that lets agents move.
Unpaced ==
    [ghostMoveCounters |-> [ghostMoveCounters EXCEPT ![GlobalTick] = 5 * (@ \div 5) + 1],
     ghostLastTurnTick |-> ghostLastTurnTick,
     gameTick |-> gameTick]

\* The distance-keeper agents that are active and have a candidate.
Keepers ==
    {i \in 1..Len(ghosts) :
        /\ ghosts[i].isActive
        /\ getGhostBehavior(ghosts[i].id) = "distance"
        /\ Len(ValidMoves(ghosts[i], grid, FALSE)) > 0}

\* The direction the agent i takes on a tick on which pacing lets it move.
Taken(i) == moveGhost(ghosts[i], grid, moveEntity(player, grid), Unpaced, NoDraw).ghost.dir

\* C34: the distance-keeper with a candidate: nearer than 6 cells (squared
\* distance below 36) it takes the first candidate that maximizes the
\* squared distance to the player; otherwise the first candidate that
\* minimizes |new squared distance - 64|.
C34_DistanceKeeper ==
    \A i \in Keepers :
        LET validMoves == ValidMoves(ghosts[i], grid, FALSE)
            new(d) == ToPlayer(Target(ghosts[i].pos, d))
            better(a, b) == IF ToPlayer(ghosts[i].pos) < 144
                            THEN new(a) > new(b)
                            ELSE OffIdeal(new(a)) < OffIdeal(new(b))
        IN  \E k \in 1..Len(validMoves) :
               /\ Taken(i) = validMoves[k]
               /\ \A j \in 1..Len(validMoves) : ~better(validMoves[j], validMoves[k])
               /\ \A j \in 1..(k - 1) : better(validMoves[k], validMoves[j])

\* During play a distance-keeper 6 cells or more from the player has several
\* candidates, and the one it takes is not the one farthest from the player.
C34_KeepsIdealDistance ==
    /\ gameTick > 0
    /\ \E i \in Keepers :
          /\ ToPlayer(ghosts[i].pos) >= 144
          /\ \E d \in DirSet :
                /\ Includes(ValidMoves(ghosts[i], grid, FALSE), d)
                /\ ToPlayer(Target(ghosts[i].pos, d)) > ToPlayer(Target(ghosts[i].pos, Taken(i)))

\* During play a distance-keeper nearer than 6 cells has several candidates
\* and takes one that moves it away from the player.
C34_Flees ==
    /\ gameTick > 0
    /\ \E i \in Keepers :
          /\ ToPlayer(ghosts[i].pos) < 144
          /\ Len(ValidMoves(ghosts[i], grid, FALSE)) > 1
          /\ ToPlayer(Target(ghosts[i].pos, Taken(i))) > ToPlayer(ghosts[i].pos)

\* Agent i is not skipped by the shared pacing counter nor, for the slow
\* policy, by its own counter.
NotSkipped(i) ==
    /\ ghostMoveCounters[GlobalTick] % 5 # 0
    /\ getGhostBehavior(ghosts[i].id) = "slow" => ghostMoveCounters[ghosts[i].id] % 2 # 0

\* to lies exactly one cell from from in direction d, or on the opposite
\* edge when that cell is beyond the edge of the grid.
OneCell(from, to, d) ==
    LET edgeX == U(Cols(grid)) - GHOST_SIZE
        edgeY == U(Rows(grid)) - GHOST_SIZE
        x == CASE d = "LEFT" -> IF from.x - 2 < 0 THEN edgeX ELSE from.x - 2
               [] d = "RIGHT" -> IF from.x + 2 > edgeX THEN 0 ELSE from.x + 2
               [] OTHER -> from.x
        y == CASE d = "UP" -> IF from.y - 2 < 0 THEN edgeY ELSE from.y - 2
               [] d = "DOWN" -> IF from.y + 2 > edgeY THEN 0 ELSE from.y + 2
               [] OTHER -> from.y
    IN  to = Pos(x, y)

\* C35: an active agent that pacing does not skip and that has a candidate
\* takes a direction of its validated candidate set, whatever its policy
\* and its random draws, and moves exactly one cell in that direction (or
\* wraps to the opposite edge); it never moves farther or diagonally.
C35_OneCellInCandidateDirection ==
    /\ [](\A i \in 1..Len(ghosts) :
            \A draw \in DrawsFor(getGhostBehavior(ghosts[i].id)) :
               LET validMoves == ValidMoves(ghosts[i], grid,
                                    getGhostBehavior(ghosts[i].id) = "erratic" /\ draw.rev)
                   moved == moveGhost(ghosts[i], grid, player,
                                      [ghostMoveCounters |-> ghostMoveCounters,
                                       ghostLastTurnTick |-> ghostLastTurnTick,
                                       gameTick |-> gameTick], draw)
               IN  (ghosts[i].isActive /\ NotSkipped(i) /\ Len(validMoves) > 0 /\ moved.ok) =>
                       /\ Includes(validMoves, moved.ghost.dir)
                       /\ OneCell(ghosts[i].pos, moved.ghost.pos, moved.ghost.dir))
    /\ [][StepMove =>
            \A i \in 1..Len(ghosts) :
               /\ \/ ghosts'[i].pos = ghosts[i].pos
                  \/ \E d \in DirSet : OneCell(ghosts[i].pos, ghosts'[i].pos, d)
               /\ (/\ ghosts[i].isActive /\ NotSkipped(i)
                   /\ Len(ValidMoves(ghosts[i], grid, FALSE)) > 0
                   /\ Len(ValidMoves(ghosts[i], grid, TRUE)) > 0) =>
                      /\ \E canReverse \in BOOLEAN :
                            Includes(ValidMoves(ghosts[i], grid, canReverse), ghosts'[i].dir)
                      /\ OneCell(ghosts[i].pos, ghosts'[i].pos, ghosts'[i].dir)]_vars

\* The value of the shared pacing counter that the call of moveGhost for
\* agent i reads in a tick: one call per active agent, in pool order.
SharedAt(i) ==
    ghostMoveCounters[GlobalTick] + Cardinality({j \in 1..(i - 1) : ghosts[j].isActive})

\* The first candidate of agent i farthest from the player.
FleeDir(i) ==
    LET validMoves == ValidMoves(ghosts[i], grid, FALSE)
        k == CHOOSE k \in 1..Len(validMoves) :
                /\ \A j \in 1..Len(validMoves) :
                      ToPlayer(Target(ghosts[i].pos, validMoves[j]))
                        <= ToPlayer(Target(ghosts[i].pos, validMoves[k]))
                /\ \A j \in 1..(k - 1) :
                      ToPlayer(Target(ghosts[i].pos, validMoves[j]))
                        < ToPlayer(Target(ghosts[i].pos, validMoves[k]))
    IN  validMoves[k]

\* C36: on a tick the shared pacing skips, the slow agent holds and its own
\* counter does not advance; on every other tick its own counter advances
\* by one, it holds when the counter was even and runs its flee policy when
\* it was odd: of two consecutive eligible ticks it is skipped on one and
\* moves on the other.
C36_SlowAlternates ==
    [][PlayingTick =>
         \A i \in 1..Len(ghosts) :
            (ghosts[i].isActive /\ getGhostBehavior(ghosts[i].id) = "slow") =>
               LET own == ghostMoveCounters[ghosts[i].id]
                   held == ghosts'[i].pos = ghosts[i].pos /\ ghosts'[i].dir = ghosts[i].dir
               IN  IF SharedAt(i) % 5 = 0
                   THEN ghostMoveCounters'[ghosts[i].id] = own /\ held
                   ELSE /\ ghostMoveCounters'[ghosts[i].id] = own + 1
                        /\ own % 2 = 0 => held
                        /\ (own % 2 = 1 /\ Len(ValidMoves(ghosts[i], grid, FALSE)) > 0) =>
                              /\ ghosts'[i].dir = FleeDir(i)
                              /\ ghosts'[i].pos = Target(ghosts[i].pos, FleeDir(i))]_vars

\* The slow agent is active and has been through three eligible ticks.
C36_SlowHasAlternated ==
    \E i \in 1..Len(ghosts) :
        /\ ghosts[i].isActive
        /\ getGhostBehavior(ghosts[i].id) = "slow"
        /\ ghostMoveCounters[ghosts[i].id] >= 3

\* C37: while an agent of the pool is not eaten, at least one agent is
\* active, and never more agents are active than the 2 of the initial state.
C37_SomeAgentActive ==
    /\ (\E i \in 1..Len(ghosts) : ~ghosts[i].isEaten) =>
           (\E i \in 1..Len(ghosts) : ghosts[i].isActive /\ ~ghosts[i].isEaten)
    /\ Cardinality({i \in 1..Len(ghosts) : ghosts[i].isActive}) <= InitialActive

\* All agents but one are eaten, and the last one is the active one.
C37_LastAgentActive ==
    /\ Len(ghosts) = NumGhosts
    /\ Cardinality({i \in 1..Len(ghosts) : ghosts[i].isEaten}) = NumGhosts - 1
    /\ Cardinality({i \in 1..Len(ghosts) : ghosts[i].isActive}) = 1

\* C38: after a tick resolved in PLAYING no cell under the player's
\* footprint at its new position is PELLET, also when the player was blocked
\* or had no direction and did not move.
C38_NoPelletUnderPlayer ==
    [][PlayingTick =>
         \A c \in Footprint(player'.pos, PLAYER_WIDTH, PLAYER_HEIGHT) :
             CellAt(grid', c[1], c[2]) # PELLET]_vars

\* The player stands where the session placed it, without a direction, and
\* a tick has consumed a pellet of its footprint.
C38_ConsumedWithoutMoving ==
    /\ grid # << >>
    /\ player.pos = InitialPlayer(generateMapLayout(Cols(grid), Rows(grid))).pos
    /\ player.dir = NoDir
    /\ score > 0
    /\ \E c \in Footprint(player.pos, PLAYER_WIDTH, PLAYER_HEIGHT) :
          /\ CellAt(generateMapLayout(Cols(grid), Rows(grid)), c[1], c[2]) = PELLET
          /\ CellAt(grid, c[1], c[2]) = EMPTY

\* C39: status is never GAME_OVER and lives stays at 3: a collision of the
\* player with an agent scores and retires the agent, it never ends the
\* session.
C39_NeverGameOver ==
    /\ status # "GAME_OVER"
    /\ lives = InitialLives

\* A collision has retired an agent and the session goes on.
C39_CollisionScored ==
    /\ status = "PLAYING"
    /\ score >= GhostReward
    /\ \E i \in 1..Len(ghosts) : ghosts[i].isEaten /\ ~ghosts[i].isActive
    /\ \E i \in 1..Len(ghosts) : ghosts[i].isActive

\* C40: a tick that finds a status other than PLAYING leaves the session
\* state (player, agents, grid, score, status, lives, message) unchanged and
\* advances no pacing or policy counter.
C40_IdleTickChangesNothing ==
    [][(Tick /\ status # "PLAYING") =>
          /\ UNCHANGED <<grid, player, ghosts, score, status, lives, activeMessage>>
          /\ UNCHANGED <<ghostMoveCounters, ghostLastTurnTick, gameTick>>
          /\ UNCHANGED <<winSequenceTriggered, winTimers>>]_vars

\* The play-through on the larger grid has been followed to its end: the
\* restart during play, then a frame of the loop that found status IDLE.
C40_TickedWhileIdle ==
    /\ status = "IDLE"
    /\ rendered = "PLAYING"
    /\ replay = Off
    /\ detour = 0
    /\ ghostMoveCounters[GlobalTick] > 0

====
